---- MODULE Spec2Model ----
(***************************************************************************)
(* Model of the dental dataset utilities:                                  *)
(*   scripts/create_dental_dataset.py   (single-label dataset assembler)   *)
(*   train_dental_yolo.py               (multi-label generator, pipeline)  *)
(*   scripts/create_sample_yolo_model.py (dataset validation, training)    *)
(* The state is the directory tree the scripts write, the position of the  *)
(* one running process, and what that process has printed and returned.    *)
(***************************************************************************)
EXTENDS Integers, Sequences, FiniteSets, TLC

VARIABLES
    script,       \* the running program: "none" between processes
    pc,           \* position of the running process
    status,       \* exit status of the last finished process, -1 while running
    out,          \* kinds of message the process has printed
    num_images,   \* --count / --num-images
    train_split,  \* --train_split as parsed (a double), 0.8 in train_dental_yolo
    num_train,    \* int(num_images * train_split)
    num_val,      \* num_images - num_train
    i,            \* loop index of the running for loop
    dirs,         \* directories that exist
    files,        \* sample files: name -> content (sequence of written chunks)
    manifest,     \* dataset.yaml: NoFile or its content
    dirs0,        \* dirs when the process started
    files0,       \* files when the process started
    manifest0,    \* manifest when the process started
    wfail,        \* some file write of this process failed
    faults,       \* file-system faults injected so far
    wrote,        \* names of the sample files this process wrote
    yamlWrites,   \* writes of dataset.yaml by this process
    lib,          \* calls into the detection library made by this process
    sargs,        \* arguments of create_sample_yolo_model.py (pretrained, data,
                  \* outdir) and of convert_yolo_model.py (sample, input, outdir)
    model_file,   \* the .pt file at --output: NoFile or who wrote it
    gen,          \* annotation run: which generator is producing a sample
    num_conditions, \* annotation run: conditions still to draw
    conditions,   \* annotation run: conditions drawn for the sample, in order
    annotations,  \* annotation run: the lines emitted for the sample
    img,          \* drawing run: the image being drawn and how far it has got
    shapes,       \* drawing run: the calls of drawing primitives, in order
    conv,         \* conversion runs: the call of convert_to_coreml and the
                  \* .mlpackage entries it finds and leaves
    onnx          \* inspection run: the loaded model and what is reported

vars == << script, pc, status, out, num_images, train_split, num_train, num_val,
           i, dirs, files, manifest, dirs0, files0, manifest0, wfail, faults,
           wrote, yamlWrites, lib, sargs, model_file,
           gen, num_conditions, conditions, annotations, img, shapes,
           conv, onnx >>

runVars == << script, pc, status, out, num_images, train_split, num_train,
              num_val, i, dirs, files, manifest, dirs0, files0, manifest0,
              wfail, faults, wrote, yamlWrites, lib, sargs, model_file >>

annVars == << gen, num_conditions, conditions, annotations >>

imgVars == << img, shapes >>

toolVars == << conv, onnx >>

----------------------------------------------------------------------------
(* Bounds of the model *)

\* largest --count / --num-images tried
MaxN == 3

\* file-system faults injected over a behaviour
MaxFaults == 1

----------------------------------------------------------------------------
(* Doubles.  A double in (0, 1) is kept exactly, as hi * 2^27 + lo in      *)
(* units of 2^-54; pct is the decimal text it was parsed from, in          *)
(* hundredths.                                                             *)

Limb == 2 ^ 27

Double(pct, hi, lo) == [pct |-> pct, hi |-> hi, lo |-> lo]

\* float("0.49"), float("0.5"), ... : the nearest double to the decimal
ParseFloat(pct) ==
    CASE pct = 49 -> Double(49, 65766686, 96636764)
      [] pct = 50 -> Double(50, 67108864, 0)
      [] pct = 70 -> Double(70, 93952409, 80530636)
      [] pct = 80 -> Double(80, 107374182, 53687092)
      [] pct = 90 -> Double(90, 120795955, 26843546)
      [] pct = 95 -> Double(95, 127506841, 80530636)

\* a <= b on doubles
DoubleLeq(a, b) == a.hi < b.hi \/ (a.hi = b.hi /\ a.lo <= b.lo)

AbsI(n) == IF n < 0 THEN 0 - n ELSE n

\* the k with 2^k <= x < 2^(k+1), for x >= 1
Log2Floor(x) == CHOOSE k \in 0..30 : 2 ^ k <= x /\ x < 2 ^ (k + 1)

\* int(n * f): the product of an int and a double is rounded to the nearest
\* double (ties to even), int() then truncates toward zero.  The exact
\* product is ip + (fh * 2^27 + lo2) / 2^54; rounding reaches ip + 1 exactly
\* when the product is within half an ulp of it.
IntOfProduct(n, f) ==
    LET a    == AbsI(n)
        pl   == a * f.lo
        lo2  == pl % Limb
        hi2  == a * f.hi + (pl \div Limb)
        ip   == hi2 \div Limb
        fh   == hi2 % Limb
        half == IF ip = 0 THEN 1 ELSE 2 ^ (Log2Floor(ip) + 1)
        t    == IF fh = Limb - 1 /\ Limb - lo2 <= half THEN ip + 1 ELSE ip
    IN  IF n < 0 THEN 0 - t ELSE t

----------------------------------------------------------------------------
(* Class lists *)

\* create_dental_dataset.py: classes
classes_cdd ==
    << "cavity", "gingivitis", "discoloration", "plaque", "tartar",
       "dead_tooth", "chipped", "misaligned", "healthy_tooth",
       "gum_inflammation" >>

\* train_dental_yolo.py: self.classes
classes_tdy ==
    << "cavity", "gingivitis", "discoloration", "plaque", "tartar",
       "dead_tooth", "chipped", "misaligned", "healthy", "gum_inflammation" >>

\* a position counted from 1
IndexOf_from1(list, x) ==
    CHOOSE k \in 1..Len(list) : list[k] = x /\ \A j \in 1..(k - 1) : list[j] # x

\* list.index(x): position of the first occurrence, counted from 0
IndexOf(list, x) ==
    (CHOOSE k \in 1..Len(list) :
        list[k] = x /\ \A j \in 1..(k - 1) : list[j] # x) - 1

----------------------------------------------------------------------------
(* The directory tree *)

NoFile == << >>

\* content of a file written by the running process / left by an earlier one
New == << "new" >>
Old == << "old" >>

\* the dataset root (--output / --dataset-dir / --data) and its directories
Root == << "dataset" >>
ImagesDir == << "dataset", "images" >>
LabelsDir == << "dataset", "labels" >>
SplitDir(kind, split) == << "dataset", kind, split >>
\* the directory part of create_sample_yolo_model.py's --output
ModelsDir == << "models" >>

AllDirs ==
    { Root, ImagesDir, LabelsDir, ModelsDir,
      SplitDir("images", "train"), SplitDir("images", "val"),
      SplitDir("labels", "train"), SplitDir("labels", "val") }

FourDirs ==
    { SplitDir("images", "train"), SplitDir("images", "val"),
      SplitDir("labels", "train"), SplitDir("labels", "val") }

\* a path and the directories above it
Prefixes(p) == { SubSeq(p, 1, k) : k \in 1..Len(p) }

\* Path.mkdir(parents=True, exist_ok=...): raises when the directory exists
\* and exist_ok is False, else creates it and its missing parents
mkdir(ds, p, exist_ok) ==
    [ raised |-> (p \in ds) /\ ~exist_ok,
      dirs   |-> IF (p \in ds) /\ ~exist_ok THEN ds ELSE ds \cup Prefixes(p) ]

\* the decimal digits of n >= 0
RECURSIVE Digits(_)
Digits(n) == IF n < 10 THEN << n >> ELSE Append(Digits(n \div 10), n % 10)

RECURSIVE ZeroPad(_, _)
ZeroPad(s, w) == IF Len(s) >= w THEN s ELSE ZeroPad(<< 0 >> \o s, w)

\* f"{i:04d}"
Format04d(n) == ZeroPad(Digits(n), 4)

\* <root>/<kind>/<split>/<split>_<i:04d>.<ext>
SamplePath(kind, split, idx, ext) ==
    << SplitDir(kind, split), split, Format04d(idx), ext >>

\* open(path, 'a') and write: the file keeps what it held
WriteFile_append(fs, name) ==
    [ n \in (DOMAIN fs) \cup {name} |->
        IF n = name
        THEN (IF name \in DOMAIN fs THEN fs[name] ELSE << >>) \o New
        ELSE fs[n] ]

\* open(path, 'w') and write, cv2.imwrite, Image.save: the file then holds
\* what was written and nothing else
WriteFile(fs, name) ==
    [ n \in (DOMAIN fs) \cup {name} |-> IF n = name THEN New ELSE fs[n] ]

\* the files of a directory with one of the extensions: Path.glob("*.<ext>")
Glob(fs, dir, exts) == { n \in DOMAIN fs : n[1] = dir /\ n[4] \in exts }

\* what an earlier process wrote is old content to the next one
MarkOld(fs) == [ n \in DOMAIN fs |-> Old ]

\* dataset.yaml as yaml.dump writes it: a file of one mapping
ManifestOf(classes, val) ==
    << [ train |-> "images/train", val |-> val,
         nc |-> Len(classes), names |-> classes, by |-> "new" ] >>

MarkOldManifest(m) ==
    IF m = NoFile THEN NoFile ELSE << [ m[1] EXCEPT !.by = "old" ] >>

----------------------------------------------------------------------------
(* Process start and end *)

NoLib == [ train_calls |-> 0, conv_calls |-> 0,
           loads |-> 0, trains |-> 0, saves |-> 0, exports |-> 0,
           train_ret |-> "none", conv_ret |-> "none", valid_ret |-> "none",
           pre_ret |-> "none", ph_ret |-> "none", raised |-> {} ]

NoArgs == [ pretrained |-> FALSE, data |-> FALSE, outdir |-> FALSE,
            sample |-> FALSE, input |-> FALSE ]

\* command-line values tried for --count / --num-images
NumImagesSet == (0 - 1)..MaxN

\* command-line values tried for --train_split, in hundredths
SplitTexts == { 49, 50, 80, 90, 95 }

\* a process starts: nothing printed, nothing called, the tree as it is
Start(name, first, n, f, a) ==
    /\ pc = "idle"
    /\ script' = name
    /\ pc' = first
    /\ status' = 0 - 1
    /\ num_images' = n
    /\ train_split' = f
    /\ sargs' = a
    /\ UNCHANGED << out, num_train, num_val, i, dirs, files, manifest,
                    model_file, dirs0, files0, manifest0, wfail, faults,
                    wrote, yamlWrites, lib >>

\* the process is gone: what it wrote is old content to the next process,
\* which starts from the tree as it now is
process_end ==
    /\ pc = "exit"
    /\ pc' = "idle"
    /\ script' = "none"
    /\ status' = 0
    /\ out' = {}
    /\ num_images' = 0
    /\ train_split' = ParseFloat(80)
    /\ num_train' = 0
    /\ num_val' = 0
    /\ i' = 0
    /\ files' = MarkOld(files)
    /\ manifest' = MarkOldManifest(manifest)
    /\ model_file' = IF model_file = NoFile THEN NoFile ELSE Old
    /\ dirs0' = dirs
    /\ files0' = MarkOld(files)
    /\ manifest0' = MarkOldManifest(manifest)
    /\ wfail' = FALSE
    /\ wrote' = {}
    /\ yamlWrites' = 0
    /\ lib' = NoLib
    /\ sargs' = NoArgs
    /\ UNCHANGED << dirs, faults >>

\* sys.exit(code), or the return of main
Exit(code) == pc' = "exit" /\ status' = code

\* an exception no handler catches: traceback, exit status 1
Uncaught == Exit(1) /\ out' = out \cup { "traceback" }

----------------------------------------------------------------------------
(* The sample loops shared by create_dataset and generate_dataset *)

\* the split with math.ceil in place of int
TrainCount_ceil(n, f) ==
    IF (n * f.pct) % 100 = 0 THEN IntOfProduct(n, f) ELSE IntOfProduct(n, f) + 1

\* the split computed at the top of create_dataset / generate_dataset
TrainCount(n, f) == IntOfProduct(n, f)
ValCount(n, f) == n - TrainCount(n, f)

\* a fault may still be injected
CanFail == faults < MaxFaults

\* head of "for i in range(count)" followed by the image write of the body.
\* The write either succeeds, or fails: cv2.imwrite reports a failure by
\* returning False (silent = TRUE: the caller drops the result and goes on),
\* Image.save by raising OSError (silent = FALSE).
ImageStep(split, count, silent, labelPc, afterPc) ==
    IF i < count
    THEN \/ /\ files' = WriteFile(files, SamplePath("images", split, i, "jpg"))
            /\ wrote' = wrote \cup { SamplePath("images", split, i, "jpg") }
            /\ pc' = labelPc
            /\ UNCHANGED << status, out, i, wfail, faults >>
         \/ /\ CanFail
            /\ silent
            /\ faults' = faults + 1
            /\ wfail' = TRUE
            /\ pc' = labelPc
            /\ UNCHANGED << status, out, i, files, wrote >>
         \/ /\ CanFail
            /\ ~silent
            /\ faults' = faults + 1
            /\ wfail' = TRUE
            /\ Uncaught
            /\ UNCHANGED << i, files, wrote >>
    ELSE /\ pc' = afterPc
         /\ i' = 0
         /\ UNCHANGED << status, out, files, wrote, wfail, faults >>

\* the label write in a "while" loop whose index is never advanced
LabelStep_stuck(split, imagePc) ==
    \/ /\ files' = WriteFile(files, SamplePath("labels", split, i, "txt"))
       /\ wrote' = wrote \cup { SamplePath("labels", split, i, "txt") }
       /\ pc' = imagePc
       /\ UNCHANGED << status, out, i, wfail, faults >>
    \/ /\ CanFail
       /\ faults' = faults + 1
       /\ wfail' = TRUE
       /\ Uncaught
       /\ UNCHANGED << i, files, wrote >>

\* "with open(label_path, 'w') as f: f.write(...)" and the end of the body
LabelStep(split, imagePc) ==
    \/ /\ files' = WriteFile(files, SamplePath("labels", split, i, "txt"))
       /\ wrote' = wrote \cup { SamplePath("labels", split, i, "txt") }
       /\ i' = i + 1
       /\ pc' = imagePc
       /\ UNCHANGED << status, out, wfail, faults >>
    \/ /\ CanFail
       /\ faults' = faults + 1
       /\ wfail' = TRUE
       /\ Uncaught
       /\ UNCHANGED << i, files, wrote >>

\* "with open(yaml_path, 'w') as f: yaml.dump(...)"
YamlStep(classes, nextPc, code) ==
    \/ /\ manifest' = ManifestOf(classes, "images/val")
       /\ yamlWrites' = yamlWrites + 1
       /\ pc' = nextPc
       /\ status' = code
       /\ out' = out \cup { "dataset_yaml_created" }
       /\ UNCHANGED << wfail, faults >>
    \/ /\ CanFail
       /\ faults' = faults + 1
       /\ wfail' = TRUE
       /\ Uncaught
       /\ UNCHANGED << manifest, yamlWrites >>

----------------------------------------------------------------------------
(* scripts/create_dental_dataset.py *)

CDD == "create_dental_dataset"

\* below this count main prints a warning
SmallDataset == 100

\* "0.5 < args.train_split <= 0.9"
SplitInRange_strict(f) ==
    ~DoubleLeq(f, ParseFloat(50)) /\ DoubleLeq(f, ParseFloat(90))

\* "0.5 <= args.train_split <= 0.9"
SplitInRange(f) ==
    DoubleLeq(ParseFloat(50), f) /\ DoubleLeq(f, ParseFloat(90))

cdd_invoke ==
    \E n \in NumImagesSet, t \in SplitTexts :
        Start(CDD, "main", n, ParseFloat(t), NoArgs)

\* main with a check that rejects a count below 1 as it rejects a bad split
cdd_main_rejects_nonpositive ==
    /\ script = CDD
    /\ pc = "main"
    /\ IF SplitInRange(train_split) /\ num_images >= 1
       THEN /\ pc' = "create_dataset"
            /\ out' = out \cup
                 (IF num_images < SmallDataset THEN { "warn_small" } ELSE {})
            /\ UNCHANGED status
       ELSE /\ Exit(1)
            /\ out' = out \cup
                 (IF SplitInRange(train_split)
                  THEN { "error_count" } ELSE { "error_split" }) \cup
                 (IF num_images < SmallDataset THEN { "warn_small" } ELSE {})
    /\ UNCHANGED << num_images, train_split, num_train, num_val, i, dirs,
                    files, manifest, dirs0, files0, manifest0, wfail, faults,
                    wrote, yamlWrites, lib, sargs, model_file, script >>

\* main: warn about a small count, reject a split outside the range, else
\* call create_dataset
cdd_main ==
    /\ script = CDD
    /\ pc = "main"
    /\ IF SplitInRange(train_split)
       THEN /\ pc' = "create_dataset"
            /\ out' = out \cup
                 (IF num_images < SmallDataset THEN { "warn_small" } ELSE {})
            /\ UNCHANGED status
       ELSE /\ Exit(1)
            /\ out' = out \cup { "error_split" } \cup
                 (IF num_images < SmallDataset THEN { "warn_small" } ELSE {})
    /\ UNCHANGED << num_images, train_split, num_train, num_val, i, dirs,
                    files, manifest, dirs0, files0, manifest0, wfail, faults,
                    wrote, yamlWrites, lib, sargs, model_file, script >>

\* the four mkdir calls made with these flags, in order
MkdirFour(ds, exist_ok) ==
    LET a == mkdir(ds, SplitDir("images", "train"), exist_ok)
        b == mkdir(a.dirs, SplitDir("images", "val"), exist_ok)
        c == mkdir(b.dirs, SplitDir("labels", "train"), exist_ok)
        d == mkdir(c.dirs, SplitDir("labels", "val"), exist_ok)
    IN  [ raised |-> a.raised \/ b.raised \/ c.raised \/ d.raised,
          dirs   |-> IF a.raised THEN ds
                     ELSE IF b.raised THEN a.dirs
                     ELSE IF c.raised THEN b.dirs
                     ELSE d.dirs ]

\* create_dataset up to the first loop: directories, class list, split
create_dataset_begin ==
    /\ script = CDD
    /\ pc = "create_dataset"
    /\ LET m == MkdirFour(dirs, TRUE)
       IN  /\ dirs' = m.dirs
           /\ IF m.raised
              THEN /\ Uncaught
                   /\ UNCHANGED << num_train, num_val >>
              ELSE /\ num_train' = TrainCount(num_images, train_split)
                   /\ num_val' = ValCount(num_images, train_split)
                   /\ pc' = "train_image"
                   /\ UNCHANGED << status, out >>
    /\ UNCHANGED << script, num_images, train_split, i, files, manifest, dirs0,
                    files0, manifest0, wfail, faults, wrote, yamlWrites, lib,
                    sargs, model_file >>

loopFrame == << script, num_images, train_split, num_train, num_val, dirs,
                manifest, dirs0, files0, manifest0, yamlWrites, lib, sargs,
                model_file >>

create_dataset_train_image ==
    /\ script = CDD
    /\ pc = "train_image"
    /\ ImageStep("train", num_train, TRUE, "train_label", "val_image")
    /\ UNCHANGED loopFrame

create_dataset_train_label ==
    /\ script = CDD
    /\ pc = "train_label"
    /\ LabelStep("train", "train_image")
    /\ UNCHANGED loopFrame

create_dataset_val_image ==
    /\ script = CDD
    /\ pc = "val_image"
    /\ ImageStep("val", num_val, TRUE, "val_label", "yaml")
    /\ UNCHANGED loopFrame

create_dataset_val_label ==
    /\ script = CDD
    /\ pc = "val_label"
    /\ LabelStep("val", "val_image")
    /\ UNCHANGED loopFrame

\* the manifest, the report, and main's return
create_dataset_yaml ==
    /\ script = CDD
    /\ pc = "yaml"
    /\ YamlStep(classes_cdd, "exit", 0)
    /\ UNCHANGED << script, num_images, train_split, num_train, num_val, i,
                    dirs, files, dirs0, files0, manifest0, wrote, lib, sargs,
                    model_file >>

----------------------------------------------------------------------------
(* train_dental_yolo.py *)

TDY == "train_dental_yolo"

tdy_invoke ==
    \E n \in NumImagesSet : Start(TDY, "generator", n, ParseFloat(80), NoArgs)

\* DentalDatasetGenerator(...): setup_directories; then generate_dataset up
\* to its first loop (the split is 80/20)
generate_dataset_begin ==
    /\ script = TDY
    /\ pc = "generator"
    /\ LET m == MkdirFour(dirs, TRUE)
       IN  /\ dirs' = m.dirs
           /\ IF m.raised
              THEN /\ Uncaught
                   /\ UNCHANGED << num_train, num_val >>
              ELSE /\ num_train' = TrainCount(num_images, train_split)
                   /\ num_val' = ValCount(num_images, train_split)
                   /\ pc' = "train_image"
                   /\ UNCHANGED << status, out >>
    /\ UNCHANGED << script, num_images, train_split, i, files, manifest, dirs0,
                    files0, manifest0, wfail, faults, wrote, yamlWrites, lib,
                    sargs, model_file >>

generate_dataset_train_image ==
    /\ script = TDY
    /\ pc = "train_image"
    /\ ImageStep("train", num_train, FALSE, "train_label", "val_image")
    /\ UNCHANGED loopFrame

generate_dataset_train_label ==
    /\ script = TDY
    /\ pc = "train_label"
    /\ LabelStep("train", "train_image")
    /\ UNCHANGED loopFrame

generate_dataset_val_image ==
    /\ script = TDY
    /\ pc = "val_image"
    /\ ImageStep("val", num_val, FALSE, "val_label", "yaml")
    /\ UNCHANGED loopFrame

generate_dataset_val_label ==
    /\ script = TDY
    /\ pc = "val_label"
    /\ LabelStep("val", "val_image")
    /\ UNCHANGED loopFrame

\* generator.create_dataset_yaml()
tdy_create_dataset_yaml ==
    /\ script = TDY
    /\ pc = "yaml"
    /\ YamlStep(classes_tdy, "train", 0 - 1)
    /\ UNCHANGED << script, num_images, train_split, num_train, num_val, i,
                    dirs, files, dirs0, files0, manifest0, wrote, lib, sargs,
                    model_file >>

\* how far a library stage gets before the library raises, if it does
TrainOutcomes == { "ok", "load_raises", "train_raises", "save_raises" }

\* a stage whose "except Exception" clause is missing its "return False":
\* the exception is printed and the function still returns True
TrainStage_swallows(l, o) ==
    [ l EXCEPT !.train_calls = @ + 1,
               !.loads = @ + 1,
               !.trains = IF o = "load_raises" THEN @ ELSE @ + 1,
               !.saves = IF o \in { "ok", "save_raises" } THEN @ + 1 ELSE @,
               !.raised = IF o = "ok" THEN @ ELSE @ \cup { "train" },
               !.train_ret = "True" ]

\* train_yolo_model's try block: YOLO(...), model.train(...), model.save(...);
\* any exception is caught, printed, and turned into False
TrainStage(l, o) ==
    [ l EXCEPT !.train_calls = @ + 1,
               !.loads = @ + 1,
               !.trains = IF o = "load_raises" THEN @ ELSE @ + 1,
               !.saves = IF o \in { "ok", "save_raises" } THEN @ + 1 ELSE @,
               !.raised = IF o = "ok" THEN @ ELSE @ \cup { "train" },
               !.train_ret = IF o = "ok" THEN "True" ELSE "False" ]

\* what train_yolo_model prints at its end
TrainPrints(ret) ==
    IF ret = "True" THEN { "train_completed" } ELSE { "train_failed_diag" }

\* main, step 2 with a missing "return 1": a failed training falls through
\* to the conversion
tdy_train_falls_through ==
    /\ script = TDY
    /\ pc = "train"
    /\ \E o \in TrainOutcomes :
        /\ lib' = TrainStage(lib, o)
        /\ model_file' = IF o = "ok" THEN New ELSE model_file
        /\ out' = out \cup TrainPrints(TrainStage(lib, o).train_ret)
        /\ pc' = "convert"
        /\ UNCHANGED status
    /\ UNCHANGED << script, num_images, train_split, num_train, num_val, i,
                    dirs, files, manifest, dirs0, files0, manifest0, wfail,
                    faults, wrote, yamlWrites, sargs >>

\* step 2 of main: train, and return 1 when training reports failure
tdy_train ==
    /\ script = TDY
    /\ pc = "train"
    /\ \E o \in TrainOutcomes :
        /\ lib' = TrainStage(lib, o)
        /\ model_file' = IF o = "ok" THEN New ELSE model_file
        /\ IF TrainStage(lib, o).train_ret = "True"
           THEN /\ out' = out \cup TrainPrints(TrainStage(lib, o).train_ret)
                /\ pc' = "convert"
                /\ UNCHANGED status
           ELSE /\ out' = out \cup TrainPrints(TrainStage(lib, o).train_ret)
                            \cup { "training_failed" }
                /\ Exit(1)
    /\ UNCHANGED << script, num_images, train_split, num_train, num_val, i,
                    dirs, files, manifest, dirs0, files0, manifest0, wfail,
                    faults, wrote, yamlWrites, sargs >>

ConvertOutcomes ==
    { "moved", "load_raises", "export_raises", "no_package", "move_raises" }

\* convert_to_coreml's try block: YOLO(input), model.export(...), the glob
\* for *.mlpackage, shutil.move; True only when a package was moved
ConvertStage(l, o) ==
    [ l EXCEPT !.conv_calls = @ + 1,
               !.loads = @ + 1,
               !.exports = IF o = "load_raises" THEN @ ELSE @ + 1,
               !.raised = IF o \in { "moved", "no_package" } THEN @
                          ELSE @ \cup { "convert" },
               !.conv_ret = IF o = "moved" THEN "True" ELSE "False" ]

\* what convert_to_coreml prints at its end
ConvertPrints(o) ==
    IF o = "moved" THEN { "convert_successful" }
    ELSE IF o = "no_package" THEN { "convert_no_package_diag" }
    ELSE { "convert_failed_diag" }

\* step 3 of main: convert, return 1 on failure and 0 otherwise
tdy_convert ==
    /\ script = TDY
    /\ pc = "convert"
    /\ \E o \in ConvertOutcomes :
        /\ lib' = ConvertStage(lib, o)
        /\ IF ConvertStage(lib, o).conv_ret = "True"
           THEN /\ out' = out \cup ConvertPrints(o)
                            \cup { "pipeline_completed" }
                /\ Exit(0)
           ELSE /\ out' = out \cup ConvertPrints(o)
                            \cup { "conversion_failed" }
                /\ Exit(1)
    /\ UNCHANGED << script, num_images, train_split, num_train, num_val, i,
                    dirs, files, manifest, dirs0, files0, manifest0, wfail,
                    faults, wrote, yamlWrites, sargs, model_file >>

----------------------------------------------------------------------------
(* scripts/create_sample_yolo_model.py *)

CSM == "create_sample_yolo_model"

\* validate_dataset with the count mismatch treated as an error
validate_dataset_mismatch_fails(ds, fs, m) ==
    LET train_image_count ==
            Cardinality(Glob(fs, SplitDir("images", "train"), { "jpg", "png" }))
        train_label_count ==
            Cardinality(Glob(fs, SplitDir("labels", "train"), { "txt" }))
        No(msg) == [ ok |-> FALSE, msgs |-> { msg } ]
    IN  IF Root \notin ds THEN No("error_dataset_path")
        ELSE IF ImagesDir \notin ds THEN No("error_images_dir")
        ELSE IF LabelsDir \notin ds THEN No("error_labels_dir")
        ELSE IF SplitDir("images", "train") \notin ds
             THEN No("error_train_images_dir")
        ELSE IF SplitDir("labels", "train") \notin ds
             THEN No("error_train_labels_dir")
        ELSE IF m = NoFile THEN No("error_dataset_yaml")
        ELSE IF train_image_count = 0 THEN No("error_no_training_images")
        ELSE IF train_label_count = 0 THEN No("error_no_training_labels")
        ELSE IF train_image_count # train_label_count
             THEN [ ok |-> FALSE, msgs |-> { "warn_mismatch" } ]
        ELSE [ ok |-> TRUE, msgs |-> { "validation_passed" } ]

\* validate_dataset counting only the *.png files of images/train
validate_dataset_png_only(ds, fs, m) ==
    LET pngs == Glob(fs, SplitDir("images", "train"), { "png" })
        train_image_count == Cardinality(pngs)
        train_label_count ==
            Cardinality(Glob(fs, SplitDir("labels", "train"), { "txt" }))
        No(msg) == [ ok |-> FALSE, msgs |-> { msg } ]
    IN  IF Root \notin ds THEN No("error_dataset_path")
        ELSE IF ImagesDir \notin ds THEN No("error_images_dir")
        ELSE IF LabelsDir \notin ds THEN No("error_labels_dir")
        ELSE IF SplitDir("images", "train") \notin ds
             THEN No("error_train_images_dir")
        ELSE IF SplitDir("labels", "train") \notin ds
             THEN No("error_train_labels_dir")
        ELSE IF m = NoFile THEN No("error_dataset_yaml")
        ELSE IF train_image_count = 0 THEN No("error_no_training_images")
        ELSE IF train_label_count = 0 THEN No("error_no_training_labels")
        ELSE [ ok |-> TRUE,
               msgs |-> { "validation_passed" } \cup
                   (IF train_image_count # train_label_count
                    THEN { "warn_mismatch" } ELSE {}) ]

\* validate_dataset: the checks in order; the first that fails decides the
\* message and the result
validate_dataset(ds, fs, m) ==
    LET imgs == Glob(fs, SplitDir("images", "train"), { "jpg" })
        pngs == Glob(fs, SplitDir("images", "train"), { "png" })
        train_image_count == Cardinality(imgs) + Cardinality(pngs)
        train_label_count ==
            Cardinality(Glob(fs, SplitDir("labels", "train"), { "txt" }))
        No(msg) == [ ok |-> FALSE, msgs |-> { msg } ]
    IN  IF Root \notin ds THEN No("error_dataset_path")
        ELSE IF ImagesDir \notin ds THEN No("error_images_dir")
        ELSE IF LabelsDir \notin ds THEN No("error_labels_dir")
        ELSE IF SplitDir("images", "train") \notin ds
             THEN No("error_train_images_dir")
        ELSE IF SplitDir("labels", "train") \notin ds
             THEN No("error_train_labels_dir")
        ELSE IF m = NoFile THEN No("error_dataset_yaml")
        ELSE IF train_image_count = 0 THEN No("error_no_training_images")
        ELSE IF train_label_count = 0 THEN No("error_no_training_labels")
        ELSE [ ok |-> TRUE,
               msgs |-> { "validation_passed" } \cup
                   (IF train_image_count # train_label_count
                    THEN { "warn_mismatch" } ELSE {}) ]

csm_invoke ==
    \E p \in BOOLEAN, d \in BOOLEAN, o \in BOOLEAN :
        Start(CSM, "main", 0, ParseFloat(80),
              [ NoArgs EXCEPT !.pretrained = p, !.data = d, !.outdir = o ])

\* main up to the choice of stage: the argument check, then the output
\* directory is created when --output names one that does not exist
csm_main ==
    /\ script = CSM
    /\ pc = "main"
    /\ IF ~sargs.pretrained /\ ~sargs.data
       THEN /\ out' = out \cup { "error_no_data_or_pretrained" }
            /\ Exit(1)
            /\ UNCHANGED dirs
       ELSE /\ IF sargs.outdir /\ ModelsDir \notin dirs
               THEN /\ dirs' = dirs \cup Prefixes(ModelsDir)
                    /\ out' = out \cup { "created_output_directory" }
               ELSE UNCHANGED << dirs, out >>
            /\ pc' = IF sargs.pretrained THEN "pretrained" ELSE "train"
            /\ UNCHANGED status
    /\ UNCHANGED << script, num_images, train_split, num_train, num_val, i,
                    files, manifest, dirs0, files0, manifest0, wfail, faults,
                    wrote, yamlWrites, lib, sargs, model_file >>

\* create_dataset_yaml of this script: val falls back to the train images
csm_dataset_yaml(ds) ==
    ManifestOf(classes_cdd,
               IF SplitDir("images", "val") \in ds
               THEN "images/val" ELSE "images/train")

\* train_yolo_model, then main's report and exit status
csm_train_yolo_model ==
    /\ script = CSM
    /\ pc = "train"
    /\ LET v == validate_dataset(dirs, files, manifest)
       IN  IF ~v.ok
           THEN /\ lib' = [ lib EXCEPT !.train_calls = @ + 1,
                                       !.valid_ret = "False",
                                       !.train_ret = "False" ]
                /\ out' = out \cup v.msgs \cup { "model_creation_failed" }
                /\ Exit(1)
                /\ UNCHANGED << manifest, yamlWrites, model_file >>
           ELSE \E o \in TrainOutcomes :
                /\ manifest' = IF manifest = NoFile
                               THEN csm_dataset_yaml(dirs) ELSE manifest
                /\ yamlWrites' = IF manifest = NoFile
                                 THEN yamlWrites + 1 ELSE yamlWrites
                /\ lib' = [ TrainStage(lib, o) EXCEPT !.valid_ret = "True" ]
                /\ model_file' = IF o = "ok" THEN New ELSE model_file
                /\ out' = out \cup v.msgs
                            \cup TrainPrints(TrainStage(lib, o).train_ret)
                            \cup { IF o = "ok" THEN "model_created"
                                   ELSE "model_creation_failed" }
                /\ Exit(IF o = "ok" THEN 0 ELSE 1)
    /\ UNCHANGED << script, num_images, train_split, num_train, num_val, i,
                    dirs, files, dirs0, files0, manifest0, wfail, faults,
                    wrote, sargs >>

PretrainedOutcomes == { "ok", "load_raises", "save_raises" }

\* create_pretrained_yolo_model, then main's report and exit status
create_pretrained_yolo_model ==
    /\ script = CSM
    /\ pc = "pretrained"
    /\ \E o \in PretrainedOutcomes :
        /\ lib' = [ lib EXCEPT
                      !.loads = @ + 1,
                      !.saves = IF o = "load_raises" THEN @ ELSE @ + 1,
                      !.raised = IF o = "ok" THEN @ ELSE @ \cup { "pretrained" },
                      !.pre_ret = IF o = "ok" THEN "True" ELSE "False" ]
        /\ model_file' = IF o = "ok" THEN New ELSE model_file
        /\ out' = out \cup (IF o = "ok"
                            THEN { "pretrained_created", "model_created" }
                            ELSE { "pretrained_failed_diag",
                                   "model_creation_failed" })
        /\ Exit(IF o = "ok" THEN 0 ELSE 1)
    /\ UNCHANGED << script, num_images, train_split, num_train, num_val, i,
                    dirs, files, manifest, dirs0, files0, manifest0, wfail,
                    faults, wrote, yamlWrites, sargs >>

----------------------------------------------------------------------------
(* scripts/convert_yolo_model.py *)

CYM == "convert_yolo_model"

\* the keyword arguments of the call model.export(...) in
\* convert_yolo_to_coreml, in the order written
export_keywords ==
    << "format", "imgsz", "conf", "iou", "optimize", "half", "int8",
       "dynamic", "simplify", "opset", "workspace", "nms", "agnostic_nms",
       "retina_masks", "format" >>

\* the compiler's check of a call: a keyword argument given twice is a
\* SyntaxError ("keyword argument repeated")
KeywordRepeated(kws) ==
    \E a \in 1..Len(kws), b \in 1..Len(kws) : a # b /\ kws[a] = kws[b]

cym_invoke ==
    \E s \in BOOLEAN, p \in BOOLEAN, o \in BOOLEAN :
        Start(CYM, "compile", 0, ParseFloat(80),
              [ NoArgs EXCEPT !.sample = s, !.input = p, !.outdir = o ])

\* how validate_yolo_model ends
ValidateOutcomes == { "missing", "not_pt", "load_raises", "ok" }

\* how convert_yolo_to_coreml / create_sample_coreml_model ends
ConversionOutcomes == { "ok", "raises" }

\* python compiles the whole file before it runs any of it: a SyntaxError
\* anywhere in the file ends the process with a traceback and status 1
\* before main is entered.  Otherwise main runs: the argument check, the
\* output directory, validation and conversion, the report.
cym_run ==
    /\ script = CYM
    /\ pc = "compile"
    /\ IF KeywordRepeated(export_keywords)
       THEN /\ out' = out \cup { "SyntaxError" }
            /\ Exit(1)
            /\ UNCHANGED << dirs, lib >>
       ELSE IF ~sargs.sample /\ ~sargs.input
       THEN /\ out' = out \cup { "error_no_input_or_sample" }
            /\ Exit(1)
            /\ UNCHANGED << dirs, lib >>
       ELSE /\ dirs' = IF sargs.outdir THEN dirs \cup Prefixes(ModelsDir)
                       ELSE dirs
            /\ \E v \in ValidateOutcomes, c \in ConversionOutcomes :
                 IF ~sargs.sample /\ v # "ok"
                 THEN /\ lib' = [ lib EXCEPT !.valid_ret = "False" ]
                      /\ out' = out \cup { "error_validation" }
                      /\ Exit(1)
                 ELSE /\ lib' = [ lib EXCEPT
                            !.valid_ret = IF sargs.sample THEN @ ELSE "True",
                            !.conv_calls = @ + 1,
                            !.conv_ret = IF c = "ok" THEN "True" ELSE "False" ]
                      /\ out' = out \cup { IF c = "ok" THEN "model_created"
                                           ELSE "conversion_failed" }
                      /\ Exit(IF c = "ok" THEN 0 ELSE 1)
    /\ UNCHANGED << script, num_images, train_split, num_train, num_val, i,
                    files, manifest, dirs0, files0, manifest0, wfail, faults,
                    wrote, yamlWrites, sargs, model_file >>

----------------------------------------------------------------------------
(* scripts/create_placeholder_coreml.py *)

CPC == "create_placeholder_coreml"

cpc_invoke ==
    \E o \in BOOLEAN :
        Start(CPC, "main", 0, ParseFloat(80), [ NoArgs EXCEPT !.outdir = o ])

\* how create_placeholder_coreml_model ends: all of the package written, or
\* an exception from mkdir or from one of the three file writes
PlaceholderOutcomes == { "ok", "mkdir_raises", "write_raises" }

\* main: the output directory, then create_placeholder_coreml_model (its try
\* block: mkdir, manifest.json, Data, model_info.json, weights.bin), then the
\* report and the exit status
cpc_main ==
    /\ script = CPC
    /\ pc = "main"
    /\ dirs' = IF sargs.outdir THEN dirs \cup Prefixes(ModelsDir) ELSE dirs
    /\ \E o \in PlaceholderOutcomes :
        /\ lib' = [ lib EXCEPT
                      !.raised = IF o = "ok" THEN @ ELSE @ \cup { "placeholder" },
                      !.ph_ret = IF o = "ok" THEN "True" ELSE "False" ]
        /\ out' = out \cup (IF o = "ok"
                            THEN { "placeholder_created" }
                            ELSE { "placeholder_failed_diag",
                                   "placeholder_creation_failed" })
                      \cup (IF sargs.outdir /\ ModelsDir \notin dirs
                            THEN { "created_output_directory" } ELSE {})
        /\ Exit(IF o = "ok" THEN 0 ELSE 1)
    /\ UNCHANGED << script, num_images, train_split, num_train, num_val, i,
                    files, manifest, dirs0, files0, manifest0, wfail, faults,
                    wrote, yamlWrites, sargs, model_file >>

----------------------------------------------------------------------------
(* The specification of the scripts *)

\* no image is being drawn
NoImage == [ pc |-> "none", by |-> "none", width |-> 0, height |-> 0,
             condition |-> "none", tooth |-> 0 ]

\* the package model.export() leaves next to the input model
ExportName == "dental_yolo_model.mlpackage"

\* the default of --output-coreml
OutName == "DentalDetectionModel.mlpackage"

PackageNames == { ExportName, OutName }

\* a package directory: absent, or made before this call ("old") or by this
\* call's export ("new"), with the names of the packages moved inside it
Package(made, inside) == [ made |-> made, inside |-> inside ]

Absent == Package("absent", {})

\* the package at output_path: an entry of the model's directory when
\* output_path lies in it (as with the default arguments), else elsewhere
OutputPackage(cv) == IF cv.out_in_dir THEN cv.dir[OutName] ELSE cv.outside

\* no conversion has run and the directory holds no package
NoConv == [ pc |-> "none", out_in_dir |-> TRUE,
            dir |-> [ n \in PackageNames |-> Absent ], outside |-> Absent,
            exported |-> "none", ret |-> "none" ]

\* no model has been loaded
NoModel == [ pc |-> "none", output |-> << >>, node |-> << >>,
             yolo |-> FALSE, shapes |-> << >>, status |-> 0 - 1 ]

NoFiles == [ n \in {} |-> Old ]

\* a set of directories in which every directory has its parent
ParentClosed(ds) == \A p \in ds : Prefixes(p) \subseteq ds

\* a dataset prepared by hand: one .png training image and its label
PreparedFiles ==
    [ n \in { SamplePath("images", "train", 0, "png"),
              SamplePath("labels", "train", 0, "txt") } |-> Old ]

\* what the root may hold before the first process: nothing, or the prepared
\* dataset when its two directories exist
InitialFiles(ds) ==
    { NoFiles } \cup
    (IF { SplitDir("images", "train"), SplitDir("labels", "train") } \subseteq ds
     THEN { PreparedFiles } ELSE {})

\* the dataset.yaml that may come with the prepared dataset
InitialManifests(ds, fs) ==
    { NoFile } \cup
    (IF fs # NoFiles THEN { MarkOldManifest(csm_dataset_yaml(ds)) } ELSE {})

Init ==
    /\ script = "none"
    /\ pc = "idle"
    /\ status = 0
    /\ out = {}
    /\ num_images = 0
    /\ train_split = ParseFloat(80)
    /\ num_train = 0
    /\ num_val = 0
    /\ i = 0
    /\ dirs \in { ds \in SUBSET (AllDirs \ { ModelsDir }) : ParentClosed(ds) }
    /\ files \in InitialFiles(dirs)
    /\ manifest \in InitialManifests(dirs, files)
    /\ dirs0 = dirs
    /\ files0 = files
    /\ manifest0 = manifest
    /\ wfail = FALSE
    /\ faults = 0
    /\ wrote = {}
    /\ yamlWrites = 0
    /\ lib = NoLib
    /\ sargs = NoArgs
    /\ model_file = NoFile
    /\ gen = "none"
    /\ num_conditions = 0
    /\ conditions = << >>
    /\ annotations = << >>
    /\ img = NoImage
    /\ shapes = << >>
    /\ conv = NoConv
    /\ onnx = NoModel

Next ==
    \/ (cdd_invoke /\ UNCHANGED << annVars, imgVars, toolVars >>)
    \/ (cdd_main /\ UNCHANGED << annVars, imgVars, toolVars >>)
    \/ (create_dataset_begin /\ UNCHANGED << annVars, imgVars, toolVars >>)
    \/ (create_dataset_train_image /\ UNCHANGED << annVars, imgVars, toolVars >>)
    \/ (create_dataset_train_label /\ UNCHANGED << annVars, imgVars, toolVars >>)
    \/ (create_dataset_val_image /\ UNCHANGED << annVars, imgVars, toolVars >>)
    \/ (create_dataset_val_label /\ UNCHANGED << annVars, imgVars, toolVars >>)
    \/ (create_dataset_yaml /\ UNCHANGED << annVars, imgVars, toolVars >>)
    \/ (tdy_invoke /\ UNCHANGED << annVars, imgVars, toolVars >>)
    \/ (generate_dataset_begin /\ UNCHANGED << annVars, imgVars, toolVars >>)
    \/ (generate_dataset_train_image /\ UNCHANGED << annVars, imgVars, toolVars >>)
    \/ (generate_dataset_train_label /\ UNCHANGED << annVars, imgVars, toolVars >>)
    \/ (generate_dataset_val_image /\ UNCHANGED << annVars, imgVars, toolVars >>)
    \/ (generate_dataset_val_label /\ UNCHANGED << annVars, imgVars, toolVars >>)
    \/ (tdy_create_dataset_yaml /\ UNCHANGED << annVars, imgVars, toolVars >>)
    \/ (tdy_train /\ UNCHANGED << annVars, imgVars, toolVars >>)
    \/ (tdy_convert /\ UNCHANGED << annVars, imgVars, toolVars >>)
    \/ (csm_invoke /\ UNCHANGED << annVars, imgVars, toolVars >>)
    \/ (csm_main /\ UNCHANGED << annVars, imgVars, toolVars >>)
    \/ (csm_train_yolo_model /\ UNCHANGED << annVars, imgVars, toolVars >>)
    \/ (create_pretrained_yolo_model /\ UNCHANGED << annVars, imgVars, toolVars >>)
    \/ (cym_invoke /\ UNCHANGED << annVars, imgVars, toolVars >>)
    \/ (cym_run /\ UNCHANGED << annVars, imgVars, toolVars >>)
    \/ (cpc_invoke /\ UNCHANGED << annVars, imgVars, toolVars >>)
    \/ (cpc_main /\ UNCHANGED << annVars, imgVars, toolVars >>)
    \/ (process_end /\ UNCHANGED << annVars, imgVars, toolVars >>)

Spec == Init /\ [][Next]_vars

----------------------------------------------------------------------------
(* One run of a generator from start to end.  A process that has been       *)
(* started keeps taking its next step: the interpreter runs it to its end.  *)

GeneratorSteps ==
    \/ cdd_main
    \/ create_dataset_begin
    \/ create_dataset_train_image
    \/ create_dataset_train_label
    \/ create_dataset_val_image
    \/ create_dataset_val_label
    \/ create_dataset_yaml
    \/ generate_dataset_begin
    \/ generate_dataset_train_image
    \/ generate_dataset_train_label
    \/ generate_dataset_val_image
    \/ generate_dataset_val_label
    \/ tdy_create_dataset_yaml
    \/ tdy_train
    \/ tdy_convert

NextRun ==
    \/ (cdd_invoke /\ UNCHANGED << annVars, imgVars, toolVars >>)
    \/ (tdy_invoke /\ UNCHANGED << annVars, imgVars, toolVars >>)
    \/ (GeneratorSteps /\ UNCHANGED << annVars, imgVars, toolVars >>)

SpecRun ==
    /\ Init
    /\ [][NextRun]_vars
    /\ WF_vars(GeneratorSteps /\ UNCHANGED << annVars, imgVars, toolVars >>)

----------------------------------------------------------------------------
(* Annotations.  Coordinates are kept in units of 10^-7; a line holds them  *)
(* as printed with six decimals, in units of 10^-6.                         *)

Unit == 10 ^ 7

\* random.random() as a fraction u / UDen of the unit interval
UDen == 3

\* random.uniform(a, b) == a + (b - a) * random.random()
uniform(a, b, u) == a + ((b - a) * u) \div UDen

ClampTo(lo, hi, x) == IF x < lo THEN lo ELSE IF x > hi THEN hi ELSE x

\* f"{x:.6f}" of x >= 0: rounded to the sixth decimal
Format6f(x) == (x + 5) \div 10

Line(class_id, x_center, y_center, width, height) ==
    [ class_id |-> class_id,
      x_center |-> Format6f(x_center), y_center |-> Format6f(y_center),
      width |-> Format6f(width), height |-> Format6f(height) ]

\* create_annotation with a jitter of +/- 0.3 on the centre of a "misaligned"
\* sample
create_annotation_wide_jitter(condition, class_id, u1, u2) ==
    LET x_center == IF condition = "misaligned"
                    THEN (Unit \div 2)
                         + uniform(0 - (3 * Unit) \div 10, (3 * Unit) \div 10, u1)
                    ELSE Unit \div 2
        y_center == (45 * Unit) \div 100
        width    == IF condition = "misaligned"
                    THEN (6 * Unit) \div 10
                         + uniform(0 - (5 * Unit) \div 100, (5 * Unit) \div 100, u2)
                    ELSE (6 * Unit) \div 10
        height   == IF condition = "chipped"
                    THEN (3 * Unit) \div 10
                         + uniform(0 - (5 * Unit) \div 100, (5 * Unit) \div 100, u1)
                    ELSE (3 * Unit) \div 10
    IN  Line(class_id,
             ClampTo(0, Unit, x_center),
             ClampTo(0, Unit, y_center),
             ClampTo(Unit \div 10, (8 * Unit) \div 10, width),
             ClampTo(Unit \div 10, (5 * Unit) \div 10, height))

\* create_annotation of create_dental_dataset.py; u1, u2 are the draws a
\* "misaligned" sample makes, u1 the one a "chipped" sample makes
create_annotation(condition, class_id, u1, u2) ==
    LET x_center == IF condition = "misaligned"
                    THEN (Unit \div 2) + uniform(0 - (Unit \div 10), Unit \div 10, u1)
                    ELSE Unit \div 2
        y_center == (45 * Unit) \div 100
        width    == IF condition = "misaligned"
                    THEN (6 * Unit) \div 10
                         + uniform(0 - (5 * Unit) \div 100, (5 * Unit) \div 100, u2)
                    ELSE (6 * Unit) \div 10
        height   == IF condition = "chipped"
                    THEN (3 * Unit) \div 10
                         + uniform(0 - (5 * Unit) \div 100, (5 * Unit) \div 100, u1)
                    ELSE (3 * Unit) \div 10
    IN  Line(class_id,
             ClampTo(0, Unit, x_center),
             ClampTo(0, Unit, y_center),
             ClampTo(Unit \div 10, (8 * Unit) \div 10, width),
             ClampTo(Unit \div 10, (5 * Unit) \div 10, height))

\* one pass of the loop over the drawn conditions in
\* generate_synthetic_dental_image: four draws, then the line
synthetic_annotation(condition, u) ==
    Line(IndexOf(classes_tdy, condition),
         uniform((2 * Unit) \div 10, (8 * Unit) \div 10, u[1]),
         uniform((3 * Unit) \div 10, (7 * Unit) \div 10, u[2]),
         uniform(Unit \div 10, (3 * Unit) \div 10, u[3]),
         uniform(Unit \div 10, (3 * Unit) \div 10, u[4]))

Elements(list) == { list[k] : k \in 1..Len(list) }

\* draws tried for one call of create_annotation
Draws == { 0, 1, UDen }

\* draws tried for the four uniform() calls of one drawn condition
Draws4 == { << 0, 0, 0, 0 >>, << UDen, UDen, UDen, UDen >> }

\* random.randint(1, 4): the most conditions drawn on one image
MaxConditions == 4

\* create_dataset's loop body down to the annotation: a condition is chosen,
\* its index looked up, the annotation built
ann_create_annotation ==
    /\ gen = "none"
    /\ \E c \in Elements(classes_cdd), u1 \in Draws, u2 \in Draws :
        /\ conditions' = << c >>
        /\ annotations' =
             << create_annotation(c, IndexOf(classes_cdd, c), u1, u2) >>
    /\ gen' = "create_annotation"
    /\ num_conditions' = 0
    /\ UNCHANGED << runVars, imgVars, toolVars >>

\* generate_synthetic_dental_image down to its loop: the number of
\* conditions is drawn
ann_generate_begin ==
    /\ gen = "none"
    /\ \E k \in 1..MaxConditions : num_conditions' = k
    /\ gen' = "generate_synthetic_dental_image"
    /\ conditions' = << >>
    /\ annotations' = << >>
    /\ UNCHANGED << runVars, imgVars, toolVars >>

\* the pass with random.choices in place of random.sample: a condition may
\* be drawn again
ann_draw_condition_with_replacement ==
    /\ gen = "generate_synthetic_dental_image"
    /\ num_conditions > 0
    /\ \E c \in Elements(classes_tdy), u \in Draws4 :
        /\ conditions' = Append(conditions, c)
        /\ annotations' = Append(annotations, synthetic_annotation(c, u))
    /\ num_conditions' = num_conditions - 1
    /\ UNCHANGED << gen, runVars, imgVars, toolVars >>

\* one pass of its loop: the next condition of random.sample (none is drawn
\* twice), its placement, its line
ann_draw_condition ==
    /\ gen = "generate_synthetic_dental_image"
    /\ num_conditions > 0
    /\ \E c \in Elements(classes_tdy) \ Elements(conditions), u \in Draws4 :
        /\ conditions' = Append(conditions, c)
        /\ annotations' = Append(annotations, synthetic_annotation(c, u))
    /\ num_conditions' = num_conditions - 1
    /\ UNCHANGED << gen, runVars, imgVars, toolVars >>

InitAnn ==
    /\ script = "none"
    /\ pc = "idle"
    /\ status = 0
    /\ out = {}
    /\ num_images = 0
    /\ train_split = ParseFloat(80)
    /\ num_train = 0
    /\ num_val = 0
    /\ i = 0
    /\ dirs = {}
    /\ files = NoFiles
    /\ manifest = NoFile
    /\ dirs0 = {}
    /\ files0 = NoFiles
    /\ manifest0 = NoFile
    /\ wfail = FALSE
    /\ faults = 0
    /\ wrote = {}
    /\ yamlWrites = 0
    /\ lib = NoLib
    /\ sargs = NoArgs
    /\ model_file = NoFile
    /\ gen = "none"
    /\ num_conditions = 0
    /\ conditions = << >>
    /\ annotations = << >>
    /\ img = NoImage
    /\ shapes = << >>
    /\ conv = NoConv
    /\ onnx = NoModel

NextAnn ==
    \/ ann_create_annotation
    \/ ann_generate_begin
    \/ ann_draw_condition

SpecAnn == InitAnn /\ [][NextAnn]_vars

----------------------------------------------------------------------------
(* Drawing.  A call of a drawing primitive is kept as the primitive's name  *)
(* and the points passed to it, in pixels.                                  *)

\* the default width and height of an image
DefaultSize == 416

\* the teeth drawn by create_dental_image
Teeth == 6

Shape(prim, pts) == [ prim |-> prim, pts |-> pts ]

\* the widths and heights tried: the default, the smallest for which every
\* randint has a non-empty range, one below it in each direction, and 1
Sizes ==
    { << DefaultSize, DefaultSize >>, << 160, 60 >>, << 159, DefaultSize >>,
      << DefaultSize, 59 >>, << 1, 1 >> }

\* random.randint(lo, hi): raises ValueError when lo > hi
randint_raises(lo, hi) == lo > hi

\* the values tried for random.randint(lo, hi), lo <= hi
randint_values(lo, hi) == { lo, hi }

\* create_dental_image down to the loop over the teeth
cdi_begin ==
    /\ img.pc = "none"
    /\ \E sz \in Sizes, c \in Elements(classes_cdd) :
         img' = [ pc |-> "teeth", by |-> "create_dental_image",
                  width |-> sz[1], height |-> sz[2], condition |-> c,
                  tooth |-> 0 ]
    /\ shapes' = << >>
    /\ UNCHANGED << runVars, annVars, toolVars >>

\* one pass of "for i in range(6)": the tooth rectangle, then the feature of
\* the condition
cdi_tooth ==
    /\ img.pc = "teeth"
    /\ img.tooth < Teeth
    /\ LET tooth_width  == img.width \div 8
           tooth_height == img.height \div 3
           start_x == img.width \div 4
           start_y == img.height \div 3
           x == start_x + img.tooth * tooth_width
           y == start_y
           tooth == Shape("rectangle",
                          << << x, y >>,
                             << x + tooth_width - 5, y + tooth_height >> >>)
           next == [ img EXCEPT !.tooth = @ + 1 ]
       IN  CASE img.condition = "cavity" ->
                  IF randint_raises(5, tooth_width - 15)
                     \/ randint_raises(5, tooth_height - 15)
                  THEN /\ img' = [ img EXCEPT !.pc = "ValueError" ]
                       /\ shapes' = Append(shapes, tooth)
                  ELSE \E dx \in randint_values(5, tooth_width - 15),
                          dy \in randint_values(5, tooth_height - 15) :
                       /\ img' = next
                       /\ shapes' = shapes \o
                            << tooth,
                               Shape("circle", << << x + dx, y + dy >> >>) >>
             [] img.condition = "chipped" ->
                  /\ img' = next
                  /\ shapes' = shapes \o
                       << tooth,
                          Shape("fillPoly",
                                << << x, y >>,
                                   << x + tooth_width - 5, y >>,
                                   << x + tooth_width - 5, y + tooth_height - 10 >>,
                                   << x + tooth_width - 15, y + tooth_height >>,
                                   << x + 5, y + tooth_height >> >>) >>
             [] img.condition = "discoloration" ->
                  /\ img' = next
                  /\ shapes' = shapes \o
                       << tooth,
                          Shape("rectangle",
                                << << x, y >>,
                                   << x + tooth_width - 5, y + tooth_height >> >>) >>
             [] img.condition = "plaque" ->
                  /\ img' = next
                  /\ shapes' = shapes \o
                       << tooth,
                          Shape("rectangle",
                                << << x + 2, y + 2 >>,
                                   << x + tooth_width - 7, y + tooth_height - 2 >> >>) >>
             [] img.condition = "tartar" ->
                  /\ img' = next
                  /\ shapes' = shapes \o
                       << tooth,
                          Shape("rectangle",
                                << << x + 5, y + tooth_height - 10 >>,
                                   << x + tooth_width - 10, y + tooth_height - 5 >> >>) >>
             [] OTHER ->
                  /\ img' = next
                  /\ shapes' = Append(shapes, tooth)
    /\ UNCHANGED << runVars, annVars, toolVars >>

\* after the loop: the gum strip, the texture filter, the return
cdi_gums ==
    /\ img.pc = "teeth"
    /\ img.tooth = Teeth
    /\ LET tooth_width  == img.width \div 8
           tooth_height == img.height \div 3
           start_x == img.width \div 4
           start_y == img.height \div 3
       IN  shapes' = Append(shapes,
               Shape("rectangle",
                     << << start_x - 10, start_y + tooth_height >>,
                        << start_x + 6 * tooth_width + 5,
                           start_y + tooth_height + 20 >> >>))
    /\ img' = [ img EXCEPT !.pc = "returned" ]
    /\ UNCHANGED << runVars, annVars, toolVars >>

\* the draws tried for the placement of one condition: each of x_center,
\* y_center, w, h at an end of its range
DrawCorners ==
    { << a, b, c, d >> : a \in { 0, UDen }, b \in { 0, UDen },
                          c \in { 0, UDen }, d \in { 0, UDen } }

\* int(v * n) for v >= 0 in units of 10^-7: floor(v * n / 10^7), computed
\* in two steps that stay within 32 bits
IntOfScaled(v, n) ==
    ((v \div 10000) * n + ((v % 10000) * n) \div 10000) \div 1000

\* draw_condition of train_dental_yolo.py, called by
\* generate_synthetic_dental_image with the placement it drew
draw_condition(condition, x_center, y_center, w, h, img_width, img_height) ==
    LET x == IntOfScaled(x_center - w \div 2, img_width)
        y == IntOfScaled(y_center - h \div 2, img_height)
        width == IntOfScaled(w, img_width)
        height == IntOfScaled(h, img_height)
        box == << << x, y >>, << x + width, y + height >> >>
    IN  CASE condition \in { "cavity", "discoloration", "gum_inflammation" } ->
               Shape("ellipse", box)
          [] condition = "chipped" ->
               Shape("polygon",
                     << << x, y >>,
                        << x + width \div 2, y + height \div 4 >>,
                        << x + width, y >>,
                        << x + width - width \div 4, y + height \div 2 >>,
                        << x + width, y + height >>,
                        << x + width \div 2, y + height - height \div 4 >>,
                        << x, y + height >> >>)
          [] OTHER -> Shape("rectangle", box)

\* one pass of the loop of generate_synthetic_dental_image on a default
\* image: the placement is drawn, the condition is drawn on the image, and
\* its line is appended
gsdi_draw_condition ==
    /\ img.pc = "none"
    /\ gen = "none"
    /\ \E c \in Elements(classes_tdy), u \in DrawCorners :
        /\ img' = [ pc |-> "returned", by |-> "draw_condition",
                    width |-> DefaultSize, height |-> DefaultSize,
                    condition |-> c, tooth |-> 0 ]
        /\ shapes' =
             << draw_condition(c,
                    uniform((2 * Unit) \div 10, (8 * Unit) \div 10, u[1]),
                    uniform((3 * Unit) \div 10, (7 * Unit) \div 10, u[2]),
                    uniform(Unit \div 10, (3 * Unit) \div 10, u[3]),
                    uniform(Unit \div 10, (3 * Unit) \div 10, u[4]),
                    DefaultSize, DefaultSize) >>
        /\ conditions' = << c >>
        /\ annotations' = << synthetic_annotation(c, u) >>
    /\ gen' = "generate_synthetic_dental_image"
    /\ num_conditions' = 0
    /\ UNCHANGED << runVars, toolVars >>

InitImg == InitAnn

NextImg ==
    \/ cdi_begin
    \/ cdi_tooth
    \/ cdi_gums
    \/ gsdi_draw_condition

SpecImg == InitImg /\ [][NextImg]_vars

----------------------------------------------------------------------------
(* The boxes of both generators, over every corner of their draws *)

NextBox ==
    \/ ann_create_annotation
    \/ gsdi_draw_condition

SpecBox == InitAnn /\ [][NextBox]_vars

----------------------------------------------------------------------------
(* train_dental_yolo.py: convert_to_coreml and the *.mlpackage entries of   *)
(* the directory of the input model, over repeated runs of the pipeline     *)

\* shutil.move(src, output_path) for the entry src of the directory: a rename
\* when output_path does not exist or is src itself; into the directory
\* output_path when it exists, raising when it already holds src's name
shutil_move(cv, src) ==
    LET dst == OutputPackage(cv)
        put(p) == IF cv.out_in_dir
                  THEN [ cv EXCEPT !.dir = [ @ EXCEPT ![src] = Absent,
                                                      ![OutName] = p ] ]
                  ELSE [ cv EXCEPT !.dir = [ @ EXCEPT ![src] = Absent ],
                                   !.outside = p ]
    IN  IF dst.made = "absent"
        THEN [ raised |-> FALSE, cv |-> put(cv.dir[src]) ]
        ELSE IF cv.out_in_dir /\ src = OutName
        THEN [ raised |-> FALSE, cv |-> cv ]
        ELSE IF src \in dst.inside
        THEN [ raised |-> TRUE, cv |-> cv ]
        ELSE [ raised |-> FALSE,
               cv |-> put(Package(dst.made, dst.inside \cup { src })) ]

\* main, step 3: convert_to_coreml(args.output_model, args.output_coreml)
conv_call ==
    /\ conv.pc = "none"
    /\ \E b \in BOOLEAN :
         conv' = [ conv EXCEPT !.pc = "load", !.out_in_dir = b,
                               !.exported = "none", !.ret = "none" ]
    /\ UNCHANGED << runVars, annVars, imgVars, onnx >>

\* "model = YOLO(input_path)"; an exception is caught and False returned
conv_load ==
    /\ conv.pc = "load"
    /\ \/ conv' = [ conv EXCEPT !.pc = "export" ]
       \/ conv' = [ conv EXCEPT !.pc = "returned", !.ret = "False" ]
    /\ UNCHANGED << runVars, annVars, imgVars, onnx >>

\* "model.export(format='coreml', ...)": it leaves its package next to the
\* input model, or leaves none, or raises
conv_export ==
    /\ conv.pc = "export"
    /\ \/ conv' = [ conv EXCEPT !.pc = "find", !.exported = "package",
                                !.dir = [ @ EXCEPT ![ExportName] =
                                                     Package("new", {}) ] ]
       \/ conv' = [ conv EXCEPT !.pc = "find", !.exported = "nothing" ]
       \/ conv' = [ conv EXCEPT !.pc = "returned", !.ret = "False" ]
    /\ UNCHANGED << runVars, annVars, imgVars, onnx >>

\* "coreml_files = list(model_dir.glob('*.mlpackage'))", in no defined
\* order; the first one is moved to output_path
conv_find_move ==
    /\ conv.pc = "find"
    /\ LET coreml_files ==
               { n \in PackageNames : conv.dir[n].made # "absent" }
       IN  IF coreml_files = {}
           THEN conv' = [ conv EXCEPT !.pc = "returned", !.ret = "False" ]
           ELSE \E first \in coreml_files :
                  LET m == shutil_move(conv, first)
                  IN  conv' = [ m.cv EXCEPT
                                  !.pc = "returned",
                                  !.ret = IF m.raised THEN "False"
                                          ELSE "True" ]
    /\ UNCHANGED << runVars, annVars, imgVars, onnx >>

\* the process ends; what it left is old to the next run
conv_end ==
    /\ conv.pc = "returned"
    /\ LET old(p) == IF p.made = "new" THEN Package("old", p.inside) ELSE p
       IN  conv' = [ conv EXCEPT
                       !.pc = "none",
                       !.dir = [ n \in PackageNames |-> old(conv.dir[n]) ],
                       !.outside = old(conv.outside) ]
    /\ UNCHANGED << runVars, annVars, imgVars, onnx >>

NextConv ==
    \/ conv_call
    \/ conv_load
    \/ conv_export
    \/ conv_find_move
    \/ conv_end

SpecConv == InitAnn /\ [][NextConv]_vars

----------------------------------------------------------------------------
(* scripts/inspect_onnx_model.py.  A name is a sequence of characters. *)

\* the least last dimension of a detection output: cx, cy, w, h, obj
MinLastDim == 5

\* the least number of boxes of an output shaped [1, N, D]
MinBoxes == 100

\* most dimensions of an output shape tried
MaxRank == 3

yolo_terms ==
    << << "y", "o", "l", "o" >>,
       << "d", "e", "t", "e", "c", "t" >>,
       << "f", "o", "c", "u", "s" >>,
       << "s", "i", "g", "m", "o", "i", "d" >>,
       << "n", "m", "s" >>,
       << "g", "r", "i", "d" >>,
       << "a", "n", "c", "h", "o", "r" >> >>

\* str.lower(), on the capitals the names tried hold
LowerChar(ch) ==
    CASE ch = "C" -> "c"
      [] ch = "D" -> "d"
      [] ch = "M" -> "m"
      [] ch = "N" -> "n"
      [] ch = "S" -> "s"
      [] OTHER -> ch

lower(s) == [ k \in 1..Len(s) |-> LowerChar(s[k]) ]

\* " ".join(strs)
RECURSIVE Join(_)
Join(strs) ==
    IF Len(strs) = 0 THEN << >>
    ELSE IF Len(strs) = 1 THEN strs[1]
    ELSE strs[1] \o << " " >> \o Join(Tail(strs))

\* "t in s" for strings
Contains(s, t) ==
    \E k \in 1..(Len(s) - Len(t) + 1) : SubSeq(s, k, k + Len(t) - 1) = t

\* a dimension: its dim_value when it has one, else unknown (dim_param or
\* nothing), which the function records as None
Dim(v) == [ known |-> TRUE, value |-> v ]

NoneDim == [ known |-> FALSE, value |-> 0 ]

\* a graph output: whether its tensor type has a shape, and the shape's dims
Output(has_shape, dims) == [ has_shape |-> has_shape, dims |-> dims ]

Node(name, op_type) == [ name |-> name, op_type |-> op_type ]

\* is_probably_yolo without the test of the last dimension
is_probably_yolo_any_last_dim(onnx_model) ==
    LET has(o) == o.has_shape
        shaped == SelectSeq(onnx_model.output, has)
        node == onnx_model.node
        out_shapes == [ k \in 1..Len(shaped) |-> shaped[k].dims ]
        node_names == Join([ k \in 1..Len(node) |-> lower(node[k].name) ])
        node_ops == Join([ k \in 1..Len(node) |-> lower(node[k].op_type) ])
        has_terms ==
            \E k \in 1..Len(yolo_terms) :
                Contains(node_names, yolo_terms[k])
                    \/ Contains(node_ops, yolo_terms[k])
        yoloish_shape ==
            \E k \in 1..Len(out_shapes) :
                LET s == out_shapes[k]
                IN  /\ Len(s) = 3
                    /\ (s[1] = Dim(1) \/ ~s[1].known)
                    /\ s[2].known /\ s[2].value >= MinBoxes
                    /\ s[3].known /\ s[3].value >= MinLastDim
    IN  [ yolo |-> has_terms \/ yoloish_shape, out_shapes |-> out_shapes ]

\* is_probably_yolo: the shapes of the outputs that have one, the test of
\* their last dimensions, of the node names and op types, and of the shapes
is_probably_yolo(onnx_model) ==
    LET has(o) == o.has_shape
        shaped == SelectSeq(onnx_model.output, has)
        node == onnx_model.node
        out_shapes == [ k \in 1..Len(shaped) |-> shaped[k].dims ]
        last_dims ==
            { out_shapes[k][Len(out_shapes[k])].value :
                k \in { j \in 1..Len(out_shapes) :
                          /\ Len(out_shapes[j]) > 0
                          /\ out_shapes[j][Len(out_shapes[j])].known } }
        big_last_dim == \E d \in last_dims : d >= MinLastDim
        node_names == Join([ k \in 1..Len(node) |-> lower(node[k].name) ])
        node_ops == Join([ k \in 1..Len(node) |-> lower(node[k].op_type) ])
        has_terms ==
            \E k \in 1..Len(yolo_terms) :
                Contains(node_names, yolo_terms[k])
                    \/ Contains(node_ops, yolo_terms[k])
        yoloish_shape ==
            \E k \in 1..Len(out_shapes) :
                LET s == out_shapes[k]
                IN  /\ Len(s) = 3
                    /\ (s[1] = Dim(1) \/ ~s[1].known)
                    /\ s[2].known /\ s[2].value >= MinBoxes
                    /\ s[3].known /\ s[3].value >= MinLastDim
    IN  [ yolo |-> big_last_dim /\ (has_terms \/ yoloish_shape),
          out_shapes |-> out_shapes ]

\* the dimensions tried: unknown, 1, and both sides of the two thresholds
Dims ==
    { NoneDim, Dim(1), Dim(MinLastDim - 1), Dim(MinLastDim),
      Dim(MinBoxes - 1), Dim(MinBoxes) }

\* the outputs tried: without a shape, or with any shape of the dimensions
\* tried
Outputs ==
    { Output(FALSE, << >>) } \cup
    { Output(TRUE, s) : s \in UNION { [ 1..n -> Dims ] : n \in 0..MaxRank } }

\* the outputs tried in a graph of two outputs
FewOutputs ==
    { Output(FALSE, << >>), Output(TRUE, << >>),
      Output(TRUE, << NoneDim >>),
      Output(TRUE, << Dim(1), Dim(MinLastDim - 1) >>),
      Output(TRUE, << Dim(1), Dim(MinLastDim) >>),
      Output(TRUE, << Dim(1), Dim(MinBoxes), Dim(MinLastDim - 1) >>),
      Output(TRUE, << NoneDim, Dim(MinBoxes), Dim(MinLastDim) >>),
      Output(TRUE, << Dim(MinLastDim), Dim(MinBoxes), Dim(MinLastDim) >>) }

OutputLists ==
    { << >> } \cup { << o >> : o \in Outputs }
        \cup { << a, b >> : a \in FewOutputs, b \in FewOutputs }

Conv == << "C", "o", "n", "v" >>

\* the graphs' nodes tried: none; no term; a term in an op type, in a name,
\* in capitals; a term's letters split over two names
NodeLists ==
    { << >>,
      << Node(<< >>, Conv) >>,
      << Node(<< >>, << "S", "i", "g", "m", "o", "i", "d" >>) >>,
      << Node(<< "D", "e", "t", "e", "c", "t", "_", "0" >>, Conv) >>,
      << Node(<< "N", "M", "S" >>, Conv), Node(<< >>, Conv) >>,
      << Node(<< "n", "m" >>, Conv), Node(<< "s" >>, Conv) >>,
      << Node(<< "g", "r", "i" >>, << "D", "i", "v" >>) >> }

\* main: "m = onnx.load(PATH)"; a failure is reported and the process exits 1
onnx_load ==
    /\ onnx.pc = "none"
    /\ \/ \E os \in OutputLists, ns \in NodeLists :
            onnx' = [ onnx EXCEPT !.pc = "loaded", !.output = os,
                                  !.node = ns ]
       \/ onnx' = [ onnx EXCEPT !.pc = "exit", !.status = 1 ]
    /\ UNCHANGED << runVars, annVars, imgVars, conv >>

\* main: "yolo, shapes = is_probably_yolo(m)", the report, and the end
onnx_inspect ==
    /\ onnx.pc = "loaded"
    /\ onnx' = [ onnx EXCEPT
                   !.pc = "exit",
                   !.status = 0,
                   !.yolo = is_probably_yolo(onnx).yolo,
                   !.shapes = is_probably_yolo(onnx).out_shapes ]
    /\ UNCHANGED << runVars, annVars, imgVars, conv >>

NextOnnx ==
    \/ onnx_load
    \/ onnx_inspect

SpecOnnx == InitAnn /\ [][NextOnnx]_vars

----------------------------------------------------------------------------
(* Properties *)

Gens == { CDD, TDY }

\* the assembler (create_dataset, generate_dataset) has returned
AssemblerDone ==
    \/ script = CDD /\ pc = "exit" /\ status = 0
    \/ script = TDY /\ pc \in { "yaml", "train", "convert" }
    \/ script = TDY /\ pc = "exit" /\ yamlWrites = 1

\* the number of files in <root>/<kind>/<split>
Count(kind, split) ==
    Cardinality({ n \in DOMAIN files : n[1] = SplitDir(kind, split) })

\* floor(n * f) for the split as written on the command line
FloorOfDecimal(n, f) == (n * f.pct) \div 100

\* the sample files of a run with t training and v validation samples
SampleNames(t, v) ==
    { SamplePath("images", "train", k, "jpg") : k \in 0..(t - 1) } \cup
    { SamplePath("labels", "train", k, "txt") : k \in 0..(t - 1) } \cup
    { SamplePath("images", "val", k, "jpg") : k \in 0..(v - 1) } \cup
    { SamplePath("labels", "val", k, "txt") : k \in 0..(v - 1) }

(* C1, as the spec states it: after the assembler has returned, images/train
   holds floor(N*f) files, images/val holds N - floor(N*f), and each labels
   directory holds as many files as its images directory, for every N and
   whatever the output root held before. *)
C1_CountsForEveryRun ==
    AssemblerDone =>
        /\ Count("images", "train") = FloorOfDecimal(num_images, train_split)
        /\ Count("images", "val")
             = num_images - FloorOfDecimal(num_images, train_split)
        /\ Count("labels", "train") = Count("images", "train")
        /\ Count("labels", "val") = Count("images", "val")

(* C1, amended: after the assembler has returned on an output root whose
   split directories held no files, with N >= 0, labels/train holds int(N*f)
   files and labels/val holds N - int(N*f); each images directory holds at
   most as many files as its labels directory, and exactly as many in
   generate_dataset and in every run of create_dataset in which no image
   write failed. *)
C1_CountsOnEmptyRoot ==
    (AssemblerDone /\ files0 = NoFiles /\ num_images >= 0) =>
        /\ Count("labels", "train") = IntOfProduct(num_images, train_split)
        /\ Count("labels", "val")
             = num_images - IntOfProduct(num_images, train_split)
        /\ Count("images", "train") <= Count("labels", "train")
        /\ Count("images", "val") <= Count("labels", "val")
        /\ (script = TDY \/ ~wfail) =>
             /\ Count("images", "train") = Count("labels", "train")
             /\ Count("images", "val") = Count("labels", "val")

\* a run of create_dataset on an empty root has left both splits populated
C1_Witness ==
    /\ script = CDD /\ pc = "exit" /\ status = 0
    /\ files0 = NoFiles /\ ~wfail
    /\ num_images = 3
    /\ Count("images", "train") = 2 /\ Count("labels", "train") = 2
    /\ Count("images", "val") = 1 /\ Count("labels", "val") = 1

(* C2: every annotation line either generator emits has a class index in
   [0, 10), centre x and y in [0, 1], and width and height in [0.1, 0.8]. *)
C2_AnnotationInRange ==
    \A k \in 1..Len(annotations) :
        /\ annotations[k].class_id \in 0..9
        /\ annotations[k].x_center \in 0..(10 ^ 6)
        /\ annotations[k].y_center \in 0..(10 ^ 6)
        /\ annotations[k].width \in (10 ^ 5)..(8 * 10 ^ 5)
        /\ annotations[k].height \in (10 ^ 5)..(8 * 10 ^ 5)

\* a "misaligned" sample whose width drew the upper end of its jitter and
\* whose centre drew the lower end
C2_Witness ==
    /\ gen = "create_annotation"
    /\ conditions = << "misaligned" >>
    /\ annotations[1].class_id = 7
    /\ annotations[1].width = 650000
    /\ annotations[1].x_center = 400000

\* four conditions drawn on one image, the last class of the list among them
C2_WitnessMultiLabel ==
    /\ gen = "generate_synthetic_dental_image"
    /\ Len(annotations) = 4
    /\ annotations[4].class_id = 9
    /\ annotations[4].x_center = 800000

\* the class names of the spec's enumeration
FixedEnumeration ==
    << "cavity", "gingivitis", "discoloration", "plaque", "tartar",
       "dead_tooth", "chipped", "misaligned", "healthy_tooth",
       "gum_inflammation" >>

(* C3: the manifest a generator writes lists the ten names of the fixed
   enumeration in its order, and nc is the length of that list. *)
C3_ManifestNames ==
    (script \in Gens /\ manifest # NoFile /\ manifest[1].by = "new") =>
        /\ manifest[1].names = FixedEnumeration
        /\ manifest[1].nc = Len(manifest[1].names)

\* the split as written on the command line lies in [0.5, 0.9]
DecimalInRange(f) == 50 <= f.pct /\ f.pct <= 90

(* C4: create_dental_dataset.py with a train_split outside [0.5, 0.9] prints
   an error and exits 1 before create_dataset is called, no directory and no
   file created or changed; 0.5 and 0.9 themselves are accepted and the
   dataset is generated. *)
C4_SplitValidated ==
    script = CDD =>
        /\ ~DecimalInRange(train_split) =>
             /\ pc \in { "main", "exit" }
             /\ dirs = dirs0 /\ files = files0 /\ manifest = manifest0
             /\ pc = "exit" => (status = 1 /\ "error_split" \in out)
        /\ (train_split.pct \in { 50, 90 } /\ pc = "exit" /\ ~wfail) =>
             /\ status = 0
             /\ "error_split" \notin out
             /\ FourDirs \subseteq dirs
             /\ manifest # NoFile /\ manifest[1].by = "new"
             /\ SampleNames(num_train, num_val) \subseteq DOMAIN files

\* a split of 0.95 was rejected on a root that held a dataset
C4_Witness ==
    /\ script = CDD /\ pc = "exit" /\ status = 1
    /\ train_split.pct = 95
    /\ files0 # NoFiles /\ manifest0 # NoFile

(* C5: once the write of a sample's image file or label file fails, the run
   is aborted: no later file is written, the manifest is not written by
   that run, and the process does not finish with a success status. *)
C5_WriteFailureAborts ==
    wfail => (pc = "exit" /\ status # 0 /\ yamlWrites = 0)


\* the class list whose manifest the running generator writes
OwnClasses == IF script = CDD THEN classes_cdd ELSE classes_tdy

(* C6: a second run of the assembler on the same output root completes
   without error: the existing directories are not an error, and every
   image, label and manifest file whose name this run also produces holds
   this run's content afterwards, overwritten and not appended to. *)
C6_SecondRunOverwrites ==
    (script \in Gens /\ ~wfail) =>
        /\ "traceback" \notin out
        /\ \A n \in wrote : files[n] = New
        /\ AssemblerDone =>
             \A n \in SampleNames(num_train, num_val) :
                 n \in DOMAIN files /\ files[n] = New
        /\ yamlWrites >= 1 => manifest = ManifestOf(OwnClasses, "images/val")
        /\ (script = CDD /\ pc = "exit" /\ DecimalInRange(train_split)) =>
             status = 0

\* a run has finished on a root that held a dataset: it overwrote samples of
\* the earlier run and left one of them, which it does not produce, alone
C6_Witness ==
    /\ script = CDD /\ pc = "exit" /\ status = 0 /\ ~wfail
    /\ FourDirs \subseteq dirs0
    /\ manifest0 # NoFile
    /\ \E n \in wrote : n \in DOMAIN files0
    /\ \E n \in DOMAIN files : files[n] = Old

(* C7: on an output root that holds no samples, a completed run with total
   N >= 0 leaves exactly the pairs train_0000 .. train_(T-1) and
   val_0000 .. val_(V-1), T = int(N*f), V = N - T: every image has a label of
   the same stem and every label an image. *)
C7_ExactPairs ==
    (AssemblerDone /\ files0 = NoFiles /\ num_images >= 0) =>
        DOMAIN files =
            SampleNames(IntOfProduct(num_images, train_split),
                        num_images - IntOfProduct(num_images, train_split))

\* C7 in the runs in which no write failed
C7_ExactPairsWhenNoWriteFailed ==
    (AssemblerDone /\ files0 = NoFiles /\ num_images >= 0 /\ ~wfail) =>
        DOMAIN files =
            SampleNames(IntOfProduct(num_images, train_split),
                        num_images - IntOfProduct(num_images, train_split))

(* C8: in every run of a generator dataset.yaml is written exactly once and
   only after every image file and every label file of both splits has been
   written; no sample file is written after the manifest, and a run that
   stops before the last sample writes no manifest. *)
C8_ManifestAfterSamples ==
    script \in Gens =>
        /\ yamlWrites <= 1
        /\ AssemblerDone /\ pc = "exit" /\ status = 0 => yamlWrites = 1
        /\ yamlWrites = 1 =>
             /\ SampleNames(num_train, num_val) \subseteq wrote
             /\ pc \notin { "train_image", "train_label",
                            "val_image", "val_label" }

\* C8 with "written" read as "the write has been called"; a call of
\* cv2.imwrite that failed is one the run made
C8_ManifestAfterSampleWriteCalls ==
    script \in Gens =>
        /\ yamlWrites <= 1
        /\ yamlWrites = 1 =>
             /\ i = 0
             /\ pc \notin { "train_image", "train_label",
                            "val_image", "val_label" }
             /\ ~wfail => SampleNames(num_train, num_val) \subseteq wrote

\* the pipeline of train_dental_yolo.py has written its whole dataset
DatasetWritten ==
    /\ yamlWrites = 1
    /\ manifest # NoFile /\ manifest[1].by = "new"
    /\ \A n \in SampleNames(num_train, num_val) :
           n \in DOMAIN files /\ files[n] = New

(* C9: in main of train_dental_yolo.py training is invoked at most once and
   only after the dataset and its manifest have been written; conversion is
   invoked at most once and only after training returned True; the exit
   status is 1 when training or conversion returned False and 0 exactly when
   both returned True. *)
C9_PipelineOrder ==
    script = TDY =>
        /\ lib.train_calls <= 1
        /\ lib.conv_calls <= 1
        /\ lib.train_calls = 1 => DatasetWritten
        /\ lib.conv_calls = 1 => lib.train_ret = "True"
        /\ pc = "exit" =>
             /\ lib.train_ret = "False" => (status = 1 /\ lib.conv_calls = 0)
             /\ lib.conv_ret = "False" => status = 1
             /\ status = 0 <=>
                  (lib.train_ret = "True" /\ lib.conv_ret = "True")

\* the pipeline ended with status 1 after a successful training and a
\* failed conversion of a generated dataset
C9_Witness ==
    /\ script = TDY /\ pc = "exit" /\ status = 1
    /\ num_images = 3
    /\ lib.train_calls = 1 /\ lib.train_ret = "True"
    /\ lib.conv_calls = 1 /\ lib.conv_ret = "False"

\* the dataset at --data lacked a required directory or dataset.yaml when
\* the process started
LacksRequired ==
    \/ Root \notin dirs0
    \/ ImagesDir \notin dirs0
    \/ LabelsDir \notin dirs0
    \/ SplitDir("images", "train") \notin dirs0
    \/ SplitDir("labels", "train") \notin dirs0
    \/ manifest0 = NoFile

(* C10: create_sample_yolo_model.py run with --data on a dataset that lacks
   a required directory or dataset.yaml reports the failure and exits
   non-zero without partial work: no directory or file is created or
   changed and no model is loaded or trained before the exit. *)
C10_NoPartialWork ==
    (script = CSM /\ sargs.data /\ ~sargs.pretrained /\ LacksRequired) =>
        /\ dirs = dirs0 /\ files = files0 /\ manifest = manifest0
        /\ model_file # New
        /\ lib.loads = 0 /\ lib.trains = 0
        /\ pc = "exit" =>
             (status # 0 /\ "model_creation_failed" \in out)

(* C11: convert_yolo_model.py exits 1 when neither --input nor --sample is
   given, when validate_yolo_model rejects the input, or when the conversion
   function returns False, and exits 0 otherwise: a run given --sample or
   --input ends with status 1 only after validation or conversion has
   reported a failure. *)
C11_ExitCodes ==
    (script = CYM /\ pc = "exit") =>
        /\ status \in { 0, 1 }
        /\ (~sargs.sample /\ ~sargs.input) => status = 1
        /\ (status = 1 /\ (sargs.sample \/ sargs.input)) =>
             (lib.valid_ret = "False" \/ lib.conv_ret = "False")
        /\ status = 0 => lib.conv_ret = "True"

\* the class list of the generator that is producing a sample
GenClasses == IF gen = "create_annotation" THEN classes_cdd ELSE classes_tdy

(* C12: the class index of every annotation line is the position of the
   drawn condition in the generator's class list: names[class_id] of the
   manifest the same generator writes is the condition drawn for the line. *)
C12_ClassIndexNamesCondition ==
    LET names == ManifestOf(GenClasses, "images/val")[1].names
    IN  /\ Len(annotations) <= Len(conditions)
        /\ \A k \in 1..Len(annotations) :
             /\ annotations[k].class_id + 1 \in 1..Len(names)
             /\ names[annotations[k].class_id + 1] = conditions[k]

\* an image of the multi-label generator whose second condition is
\* "healthy", the ninth name of its list
C12_Witness ==
    /\ gen = "generate_synthetic_dental_image"
    /\ Len(annotations) = 2
    /\ conditions[2] = "healthy"
    /\ annotations[2].class_id = 8
    /\ annotations[1].class_id = 9

\* the lines of the label file: '\n'.join(annotations), once the loop over
\* the drawn conditions has ended
LabelLines == annotations

(* C13: in the multi-label generator every label file holds between 1 and 4
   lines, one per condition drawn, in the order drawn, and the class indices
   of the lines of one file are pairwise distinct. *)
C13_MultiLabelLines ==
    (gen = "generate_synthetic_dental_image" /\ num_conditions = 0) =>
        /\ Len(LabelLines) \in 1..4
        /\ Len(LabelLines) = Len(conditions)
        /\ \A k \in 1..Len(LabelLines) :
             LabelLines[k].class_id = IndexOf(classes_tdy, conditions[k])
        /\ \A j \in 1..Len(LabelLines), k \in 1..Len(LabelLines) :
             j # k => LabelLines[j].class_id # LabelLines[k].class_id

\* a finished image with four conditions, drawn in an order that is not the
\* order of the class list
C13_Witness ==
    /\ gen = "generate_synthetic_dental_image"
    /\ num_conditions = 0
    /\ Len(LabelLines) = 4
    /\ LabelLines[1].class_id = 7
    /\ LabelLines[2].class_id = 0
    /\ LabelLines[4].class_id = 3

\* the points passed to the drawing primitives so far
PointsDrawn ==
    UNION { Elements(shapes[k].pts) : k \in 1..Len(shapes) }

(* C14: every coordinate a generator passes to a drawing primitive lies
   inside the default 416x416 image: each x and each y is in [0, 416]. *)
C14_CoordinatesInsideImage ==
    (img.width = DefaultSize /\ img.height = DefaultSize) =>
        \A p \in PointsDrawn :
            /\ 0 <= p[1] /\ p[1] <= DefaultSize
            /\ 0 <= p[2] /\ p[2] <= DefaultSize

\* C14 for draw_condition alone
C14_DrawConditionInside ==
    img.by = "draw_condition" =>
        \A p \in PointsDrawn :
            /\ 0 <= p[1] /\ p[1] <= DefaultSize
            /\ 0 <= p[2] /\ p[2] <= DefaultSize

(* C15: create_dental_image has no failure mode: for every condition and
   every positive width and height it returns an image and raises no error. *)
C15_NoFailureMode ==
    img.by = "create_dental_image" => img.pc # "ValueError"

\* the points of the calls made before the gum strip: the teeth and their
\* features
TeethPoints ==
    UNION { Elements(shapes[k].pts) : k \in 1..(Len(shapes) - 1) }

\* the pixel p lies inside the box of an annotation line, the box scaled to
\* a DefaultSize image
InsideBox(line, p) ==
    /\ (2 * line.x_center - line.width) * DefaultSize <= 2 * 10 ^ 6 * p[1]
    /\ 2 * 10 ^ 6 * p[1] <= (2 * line.x_center + line.width) * DefaultSize
    /\ (2 * line.y_center - line.height) * DefaultSize <= 2 * 10 ^ 6 * p[2]
    /\ 2 * 10 ^ 6 * p[2] <= (2 * line.y_center + line.height) * DefaultSize

(* C16: the box create_annotation returns covers the teeth area
   create_dental_image draws on a 416x416 image, for every condition and
   every jitter value. *)
C16_BoxCoversTeeth ==
    (img.by = "create_dental_image" /\ img.pc = "returned"
        /\ img.width = DefaultSize /\ img.height = DefaultSize) =>
        \A u1 \in Draws, u2 \in Draws : \A p \in TeethPoints :
            InsideBox(create_annotation(img.condition,
                                        IndexOf(classes_cdd, img.condition),
                                        u1, u2), p)

\* when the process started the dataset had images/train and labels/train
\* with at least one image and one label, but no dataset.yaml
ValidButForManifest ==
    /\ { Root, ImagesDir, LabelsDir, SplitDir("images", "train"),
         SplitDir("labels", "train") } \subseteq dirs0
    /\ Glob(files0, SplitDir("images", "train"), { "jpg", "png" }) # {}
    /\ Glob(files0, SplitDir("labels", "train"), { "txt" }) # {}
    /\ manifest0 = NoFile

(* C17: train_yolo_model of create_sample_yolo_model.py, given a dataset
   that has training images and labels but no dataset.yaml, creates
   dataset.yaml and goes on to train. *)
C17_ManifestCreatedWhenMissing ==
    (script = CSM /\ sargs.data /\ ~sargs.pretrained /\ pc = "exit"
        /\ ValidButForManifest) =>
        /\ yamlWrites = 1
        /\ manifest # NoFile
        /\ lib.loads >= 1

\* the error messages of validate_dataset
ValidationErrors ==
    { "error_dataset_path", "error_images_dir", "error_labels_dir",
      "error_train_images_dir", "error_train_labels_dir",
      "error_dataset_yaml", "error_no_training_images",
      "error_no_training_labels" }

\* the requirements of a dataset in the order the claim lists them, each
\* with the error printed when it is the first that is not met
Requirements ==
    << [ met |-> Root \in dirs, msg |-> "error_dataset_path" ],
       [ met |-> ImagesDir \in dirs, msg |-> "error_images_dir" ],
       [ met |-> LabelsDir \in dirs, msg |-> "error_labels_dir" ],
       [ met |-> SplitDir("images", "train") \in dirs,
         msg |-> "error_train_images_dir" ],
       [ met |-> SplitDir("labels", "train") \in dirs,
         msg |-> "error_train_labels_dir" ],
       [ met |-> manifest0 # NoFile, msg |-> "error_dataset_yaml" ],
       [ met |-> \E n \in DOMAIN files :
                    n[1] = SplitDir("images", "train") /\ n[4] \in { "jpg", "png" },
         msg |-> "error_no_training_images" ],
       [ met |-> \E n \in DOMAIN files :
                    n[1] = SplitDir("labels", "train") /\ n[4] = "txt",
         msg |-> "error_no_training_labels" ] >>

\* the requirements not met
Unmet == { k \in 1..Len(Requirements) : ~Requirements[k].met }

(* C18: validate_dataset returns True exactly when the root, images, labels,
   images/train, labels/train and dataset.yaml exist and images/train holds
   an image and labels/train a label; the first requirement not met decides
   the one error printed; a difference between the numbers of training
   images and labels only prints a warning, and missing val directories do
   not matter. *)
C18_ValidateDataset ==
    (script = CSM /\ lib.valid_ret # "none") =>
        /\ lib.valid_ret = "True" <=> Unmet = {}
        /\ Unmet # {} =>
             out \cap ValidationErrors =
                 { Requirements[CHOOSE k \in Unmet : \A j \in Unmet : k <= j].msg }
        /\ Unmet = {} =>
             /\ out \cap ValidationErrors = {}
             /\ "validation_passed" \in out
             /\ "warn_mismatch" \in out <=>
                  Count("images", "train") # Count("labels", "train")

\* a dataset without val directories, whose one training image is a .png,
\* was accepted
C18_Witness ==
    /\ script = CSM /\ lib.valid_ret = "True"
    /\ SplitDir("images", "val") \notin dirs
    /\ SplitDir("labels", "val") \notin dirs
    /\ Glob(files, SplitDir("images", "train"), { "png" }) # {}
    /\ "warn_mismatch" \notin out

\* a dataset with more training labels than training images was accepted
\* with a warning
C18_WitnessMismatch ==
    /\ script = CSM /\ lib.valid_ret = "True"
    /\ "warn_mismatch" \in out
    /\ Count("images", "train") < Count("labels", "train")

(* C19: a stage function returns True or False and lets no exception of the
   library or the file system escape; a return of False is preceded by a
   printed diagnostic, and True is returned only when no step of the stage
   raised. *)
C19_StagesReturnBooleans ==
    LET diag(msgs) == out \cap msgs # {}
    IN  /\ lib.raised # {} => "traceback" \notin out
        /\ "train" \in lib.raised => lib.train_ret = "False"
        /\ "convert" \in lib.raised => lib.conv_ret = "False"
        /\ "pretrained" \in lib.raised => lib.pre_ret = "False"
        /\ "placeholder" \in lib.raised => lib.ph_ret = "False"
        /\ lib.train_ret = "False" =>
             diag({ "train_failed_diag" } \cup ValidationErrors)
        /\ lib.conv_ret = "False" =>
             diag({ "convert_failed_diag", "convert_no_package_diag" })
        /\ lib.pre_ret = "False" => diag({ "pretrained_failed_diag" })
        /\ lib.ph_ret = "False" => diag({ "placeholder_failed_diag" })
        /\ lib.train_ret = "True" =>
             (lib.trains = 1 /\ lib.saves = 1 /\ model_file = New)
        /\ lib.pre_ret = "True" => (lib.saves = 1 /\ model_file = New)

\* the pipeline's training returned True and its conversion then raised
C19_Witness ==
    /\ script = TDY
    /\ lib.train_ret = "True"
    /\ lib.conv_ret = "False"
    /\ lib.raised = { "convert" }
    /\ "convert_failed_diag" \in out

\* the placeholder stage failed on a write and reported it
C19_WitnessPlaceholder ==
    /\ script = CPC
    /\ lib.ph_ret = "False"
    /\ lib.raised = { "placeholder" }
    /\ status = 1

\* the image file of sample k of a split
ImageOf(split, k) == SamplePath("images", split, k, "jpg")

\* the assembler of a run with N >= 0 has been entered
AssemblerEntered ==
    script \in Gens /\ pc \in { "create_dataset", "generator" }
        /\ num_images >= 0

\* as long as no write has failed, the files written so far are those of the
\* iterations made so far: train iterations first, then validation
\* iterations, an image and a label in each, and the manifest after them
IterationsInOrder ==
    (script \in Gens /\ num_images >= 0 /\ ~wfail) =>
        /\ pc = "train_image" =>
             (i <= num_train /\ wrote = SampleNames(i, 0) /\ yamlWrites = 0)
        /\ pc = "train_label" =>
             /\ i < num_train /\ yamlWrites = 0
             /\ wrote = SampleNames(i, 0) \cup { ImageOf("train", i) }
        /\ pc = "val_image" =>
             (i <= num_val /\ wrote = SampleNames(num_train, i)
                /\ yamlWrites = 0)
        /\ pc = "val_label" =>
             /\ i < num_val /\ yamlWrites = 0
             /\ wrote = SampleNames(num_train, i) \cup { ImageOf("val", i) }
        /\ AssemblerDone =>
             /\ num_train = IntOfProduct(num_images, train_split)
             /\ num_val = num_images - num_train
             /\ wrote = SampleNames(num_train, num_val)
             /\ yamlWrites = IF pc = "yaml" THEN 0 ELSE 1

(* C20: if no write fails, a run of the assembler for N >= 0 terminates: it
   makes exactly int(N*f) train iterations, then exactly N - int(N*f)
   validation iterations, each writing one image and one label, then writes
   the manifest and returns. *)
C20_AssemblerTerminates ==
    /\ []IterationsInOrder
    /\ AssemblerEntered ~> (wfail \/ (AssemblerDone /\ yamlWrites = 1))

\* a run of create_dataset for N = 3, f = 0.5 has returned: one train
\* iteration and two validation iterations
C20_Witness ==
    /\ script = CDD /\ pc = "exit" /\ status = 0 /\ ~wfail
    /\ num_images = 3 /\ num_train = 1 /\ num_val = 2
    /\ wrote = SampleNames(1, 2)
    /\ yamlWrites = 1

\* the order in which a run with t training and v validation samples writes
\* its files: per sample the image then the label, training before validation
WriteOrder(t, v) ==
    LET T == IF t > 0 THEN t ELSE 0
        V == IF v > 0 THEN v ELSE 0
    IN  [ j \in 1..(2 * (T + V)) |->
            LET split == IF j <= 2 * T THEN "train" ELSE "val"
                m == IF j <= 2 * T THEN j - 1 ELSE j - 1 - 2 * T
            IN  IF m % 2 = 0
                THEN SamplePath("images", split, m \div 2, "jpg")
                ELSE SamplePath("labels", split, m \div 2, "txt") ]

\* the sets of files that are a prefix of a write order
Prefixes_of(order) == { { order[j] : j \in 1..k } : k \in 0..Len(order) }

(* C21: at every point of a run on an output root that held no samples, the
   files written so far are a prefix of the run's write order (image i, label
   i, image i+1, ..., training before validation); so in each split there are
   never more labels than images and never more than one image without a
   label. *)
C21_WritesFormPrefix ==
    (script \in Gens /\ files0 = NoFiles) =>
        /\ DOMAIN files \in
             Prefixes_of(WriteOrder(IntOfProduct(num_images, train_split),
                                    num_images
                                      - IntOfProduct(num_images, train_split)))
        /\ \A split \in { "train", "val" } :
             /\ Count("labels", split) <= Count("images", split)
             /\ Count("images", split) <= Count("labels", split) + 1

\* the line's box lies inside the unit square (coordinates in 10^-6)
BoxInside(line) ==
    /\ 2 * line.x_center - line.width >= 0
    /\ 2 * line.x_center + line.width <= 2 * 10 ^ 6
    /\ 2 * line.y_center - line.height >= 0
    /\ 2 * line.y_center + line.height <= 2 * 10 ^ 6

\* no value of the line sits on a bound of create_annotation's clamps
StrictlyInsideClamps(line) ==
    /\ 0 < line.x_center /\ line.x_center < 10 ^ 6
    /\ 0 < line.y_center /\ line.y_center < 10 ^ 6
    /\ 10 ^ 5 < line.width /\ line.width < 8 * 10 ^ 5
    /\ 10 ^ 5 < line.height /\ line.height < 5 * 10 ^ 5

(* C22: every annotation box either generator emits lies wholly inside the
   image, for every condition and every value of the jitter; and in
   create_annotation the clamps never change a value: each value emitted
   lies strictly between the bounds of its clamp. *)
C22_BoxInsideImage ==
    \A k \in 1..Len(annotations) :
        /\ BoxInside(annotations[k])
        /\ gen = "create_annotation" => StrictlyInsideClamps(annotations[k])

\* a "misaligned" box whose left edge is at 0.075, the least it can be
C22_Witness ==
    /\ gen = "create_annotation"
    /\ conditions = << "misaligned" >>
    /\ 2 * annotations[1].x_center - annotations[1].width = 150000

\* a box of the multi-label generator at the left-most centre with the
\* widest width
C22_WitnessMultiLabel ==
    /\ gen = "generate_synthetic_dental_image"
    /\ Len(annotations) = 1
    /\ annotations[1].x_center = 200000
    /\ annotations[1].width = 300000

\* the tree holds what create_dataset leaves for a total of n and a split f
\* on a root that held no samples, when no write failed
LeftByCreateDataset(n, f) ==
    /\ FourDirs \subseteq dirs
    /\ DOMAIN files =
         SampleNames(IntOfProduct(n, f), n - IntOfProduct(n, f))
    /\ manifest # NoFile
    /\ manifest[1].names = classes_cdd

\* the splits in [0.5, 0.9] among those tried
ValidSplits == { t \in SplitTexts : SplitInRange(ParseFloat(t)) }

(* C23: a dataset that create_dataset wrote without error to a root that
   held no samples is accepted by validate_dataset exactly when
   int(N*f) >= 1: for N >= 2 and f in [0.5, 0.9] it is accepted, and for
   N <= 1 it is rejected because images/train holds no image. *)
C23_GeneratedDatasetAccepted ==
    (script = CSM /\ lib.valid_ret # "none") =>
        \A n \in NumImagesSet, t \in ValidSplits :
            LeftByCreateDataset(n, ParseFloat(t)) =>
                /\ lib.valid_ret = "True" <=> IntOfProduct(n, ParseFloat(t)) >= 1
                /\ n >= 2 => lib.valid_ret = "True"
                /\ n <= 1 =>
                     /\ lib.valid_ret = "False"
                     /\ "error_no_training_images" \in out

\* the dataset of a run for N = 2, f = 0.5 was accepted
C23_Witness ==
    /\ script = CSM /\ lib.valid_ret = "True"
    /\ LeftByCreateDataset(2, ParseFloat(50))
    /\ files = MarkOld(files)

\* the dataset of a run for N = 1 was rejected
C23_WitnessRejected ==
    /\ script = CSM /\ lib.valid_ret = "False"
    /\ LeftByCreateDataset(1, ParseFloat(90))
    /\ "error_no_training_images" \in out

(* C25: create_dental_dataset.py does not reject a total that is zero or
   negative: with a valid train_split, main warns and calls create_dataset,
   which creates the four directories, writes no image and no label file,
   writes dataset.yaml with nc = 10, and the process exits 0; a count below
   100 only prints a warning. *)
C25_NonPositiveCountAccepted ==
    (script = CDD /\ SplitInRange(train_split)) =>
        /\ num_images <= 0 =>
             /\ pc \notin { "train_label", "val_label" }
             /\ wrote = {} /\ files = files0
             /\ (pc = "exit" /\ ~wfail) =>
                  /\ status = 0
                  /\ FourDirs \subseteq dirs
                  /\ yamlWrites = 1
                  /\ manifest # NoFile
                  /\ manifest[1].by = "new" /\ manifest[1].nc = 10
        /\ num_images < SmallDataset =>
             /\ "error_split" \notin out
             /\ pc # "main" => "warn_small" \in out
             /\ (pc = "exit" /\ ~wfail) => status = 0

\* a run for a count of -1 on a root without directories has ended with
\* status 0, the directories and the manifest made
C25_Witness ==
    /\ script = CDD /\ pc = "exit" /\ status = 0
    /\ num_images = 0 - 1
    /\ dirs0 = {} /\ FourDirs \subseteq dirs
    /\ files = NoFiles
    /\ yamlWrites = 1 /\ manifest[1].nc = 10

(* C24: when convert_to_coreml returns True, the package at output_path is
   the one this call's export produced, whatever .mlpackage entries the
   directory of the input model already held; and it returns False whenever
   the export left no package there. *)
C24_OutputIsThisExport ==
    conv.pc = "returned" =>
        /\ conv.ret = "True" => OutputPackage(conv) = Package("new", {})
        /\ conv.exported = "nothing" => conv.ret = "False"

\* in a directory that held no package, a call that returned True has put
\* its export at output_path
C24_FirstRunMovesExport ==
    (conv.pc = "returned" /\ conv.ret = "True"
        /\ \A n \in PackageNames : conv.dir[n].made # "old"
        /\ conv.outside.made # "old") =>
        OutputPackage(conv) = Package("new", {})

\* the output of an .onnx inspection has a known last dimension of at least
\* MinLastDim
KnownBigLastDim(o) ==
    /\ o.has_shape
    /\ Len(o.dims) > 0
    /\ o.dims[Len(o.dims)].known
    /\ o.dims[Len(o.dims)].value >= MinLastDim

\* the output is shaped [b, n, d] with b 1 or unknown, n >= MinBoxes and
\* d >= MinLastDim
BoxesShape(o) ==
    /\ o.has_shape
    /\ Len(o.dims) = 3
    /\ (~o.dims[1].known \/ o.dims[1].value = 1)
    /\ o.dims[2].known /\ o.dims[2].value >= MinBoxes
    /\ o.dims[3].known /\ o.dims[3].value >= MinLastDim

\* the name or the op type of the node holds one of the terms, in any case
TermInNode(n) ==
    \E k \in 1..Len(yolo_terms) :
        Contains(lower(n.name), yolo_terms[k])
            \/ Contains(lower(n.op_type), yolo_terms[k])

(* C26: is_probably_yolo returns True exactly when some output has a known
   last dimension >= 5 and, in addition, some node's name or op type holds
   one of the seven terms or some output is shaped [b, n, d] with b 1 or
   unknown, n >= 100 and d >= 5; so a model with such a 3-dimensional output
   is always classified as YOLO, and one whose outputs all lack a known last
   dimension >= 5 never is. *)
C26_ProbablyYoloExactly ==
    (onnx.pc = "exit" /\ onnx.status = 0) =>
        LET outs == { onnx.output[k] : k \in 1..Len(onnx.output) }
            nodes == { onnx.node[k] : k \in 1..Len(onnx.node) }
        IN  /\ onnx.yolo <=>
                 /\ \E o \in outs : KnownBigLastDim(o)
                 /\ \/ \E n \in nodes : TermInNode(n)
                    \/ \E o \in outs : BoxesShape(o)
            /\ (\E o \in outs : BoxesShape(o)) => onnx.yolo
            /\ (\A o \in outs : ~KnownBigLastDim(o)) => ~onnx.yolo

\* a graph without a term in its nodes, whose one output is shaped
\* [unknown, 100, 5], was classified as YOLO
C26_Witness ==
    /\ onnx.pc = "exit" /\ onnx.status = 0
    /\ onnx.yolo
    /\ onnx.output = << Output(TRUE, << NoneDim, Dim(MinBoxes), Dim(MinLastDim) >>) >>
    /\ onnx.node = << Node(<< >>, Conv) >>

\* a graph with a Sigmoid node whose one output has a last dimension of 4
\* was not classified as YOLO
C26_WitnessSmallLastDim ==
    /\ onnx.pc = "exit" /\ onnx.status = 0
    /\ ~onnx.yolo
    /\ onnx.output = << Output(TRUE, << Dim(1), Dim(MinLastDim - 1) >>) >>
    /\ \E n \in { onnx.node[k] : k \in 1..Len(onnx.node) } : TermInNode(n)

====
